---- MODULE Spec2Model ----
(***************************************************************************)
(* Verification model of the travel-planner server core:                   *)
(*   - CacheService (server/services/loggerService.js, class CacheService) *)
(*   - the provider cascades of HotelsService, FlightsService and          *)
(*     WeatherService                                                      *)
(*   - the itinerary pipeline of AIPlannerService                          *)
(* Asynchronous methods are modelled as processes that take one step per   *)
(* await point; everything between two awaits is one atomic step.          *)
(***************************************************************************)
EXTENDS Integers, Sequences, FiniteSets, TLC

VARIABLES
  now,        \* Date.now(), in milliseconds
  redisUp,    \* whether the Redis server answers commands
  store,      \* the Redis keyspace: key -> stored cache entry or NoEntry
  cl,         \* per client: position in the CacheService method it runs, and its locals
  cas,        \* the cascade run (fetchHotelsFromAPIs / fetchFlightsFromAPIs / fetchWeatherFromAPIs)
  ai,         \* the itinerary run (createAIItinerary)
  hist,       \* per client: the call it completed last, as it stood on return
  keygen      \* the generateKey evaluation in progress

vars == <<now, redisUp, store, cl, cas, ai, hist, keygen>>

(***************************************************************************)
(* Bounds of the model                                                     *)
(***************************************************************************)
MaxSec == 1        \* the clock is sampled around the whole seconds 0..MaxSec

(***************************************************************************)
(* Program constants                                                       *)
(***************************************************************************)
MsPerSec == 1000   \* ttl * 1000 in CacheService.set

Clients == {"c1", "c2"}
UserKeys == {"k1", "k2"}                    \* keys of direct get / set / getOrSet calls
Keys    == UserKeys \cup {"hotels:q", "flights:q", "weather:q:7", "ai:q"}
TTLs    == {1}      \* TTL arguments, in whole seconds

\* Payloads.  A payload is a record tagged by t; "falsy" stands for the
\* JavaScript values that fail `if (x)` (null, undefined, 0, "", false).
FalsyVal    == [t |-> "falsy"]
Truthy(d)   == d.t # "falsy"

\* The values callers hand to the cache: two objects that JSON carries as
\* they are, and an object with a NaN member, which JSON.stringify writes as
\* null.
PlainVals   == {[t |-> "val", v |-> x] : x \in {"a", "b", "NaN"}}

\* JSON.stringify(value), by the value the text denotes: a NaN number is
\* written as null, a member that is undefined is left out; everything else
\* is written as it is.  Only the plain values and the ratings and prices
\* of hotel records can hold NaN.
JsonStringify(d) ==
  CASE d.t = "val" -> [d EXCEPT !.v = IF @ = "NaN" THEN "null" ELSE @]
    [] d.t = "agg" /\ d.kind # "weather" ->
         [d EXCEPT !.items =
            [j \in 1..Len(d.items) |->
               [d.items[j] EXCEPT !.rating  = IF @ = "NaN" THEN "null" ELSE @,
                                  !.priceIs = IF @ = "NaN" THEN "null" ELSE @]]]
    [] OTHER -> d

NoEntry == [t |-> "none"]

\* The instants at which the clock is observed: one millisecond before, at,
\* and one millisecond after every whole second.
SampleTimes ==
  {s * MsPerSec + o : s \in 0..MaxSec, o \in {-1, 0, 1}} \cap Nat

\* CacheService.isExpired(cacheEntry), evaluated at time t.
IsExpired(e, t) == t - e.timestamp > e.ttl

\* Redis drops a key written with SETEX once its time to live has passed.
RedisLive(e, t) == e.t = "none" \/ t <= e.exp

\* The value of getOrSet when it returns null.
NullResult == [null |-> TRUE, data |-> FalsyVal, cached |-> FALSE, source |-> "none"]
Result(d, c, s) == [null |-> FALSE, data |-> d, cached |-> c, source |-> s]

IdleClient ==
  [pc |-> "idle", op |-> "none", prod |-> "none", key |-> "k1", ttl |-> 1,
   val |-> FalsyVal, stamp |-> 0, calls |-> 0,
   snap |-> NoEntry, snapAge |-> 0, snapUp |-> TRUE, over |-> NoEntry,
   ret |-> NullResult, retVal |-> FalsyVal, retOk |-> FALSE, served |-> 0]

Upd(c, r) == cl' = [cl EXCEPT ![c] = r]

\* What is kept of a call that returned at time t: the operation and its
\* arguments, what it produced and returned, whether the entry was written and
\* which entry the write replaced, whether Redis answered the read, and the
\* instant the age of what it left behind counts from (the timestamp of the
\* entry when one was written, the return otherwise).
KeptCall(r, t) ==
  [op |-> r.op, key |-> r.key, ttl |-> r.ttl, val |-> r.val, ret |-> r.ret,
   retOk |-> r.retOk, calls |-> r.calls, up |-> r.snapUp, over |-> r.over,
   since |-> IF r.retOk THEN r.stamp ELSE t]

\* No call has been completed yet.
NoCall == KeptCall(IdleClient, 0)

\* No generateKey evaluation is in progress.
NoKeyGen == [pc |-> "idle"]

(***************************************************************************)
(* The environment of the cache: the clock and the Redis server            *)
(***************************************************************************)
\* Time passes to a later instant of `times`; Redis expires the keys whose
\* SETEX time to live has passed.
TickTo(times) ==
  /\ \E t \in times :
       /\ t > now
       /\ now' = t
       /\ store' = [k \in Keys |-> IF RedisLive(store[k], t) THEN store[k] ELSE NoEntry]
  /\ UNCHANGED <<redisUp, cl, cas, ai, hist, keygen>>

Tick == TickTo(SampleTimes)

\* The Redis server becomes unreachable: connect() and every command reject.
RedisFail ==
  /\ redisUp
  /\ redisUp' = FALSE
  /\ UNCHANGED <<now, store, cl, cas, ai, hist, keygen>>

RedisRecover ==
  /\ ~redisUp
  /\ redisUp' = TRUE
  /\ UNCHANGED <<now, store, cl, cas, ai, hist, keygen>>

(***************************************************************************)
(* CacheService.get / set / getOrSet, one step per await                   *)
(***************************************************************************)
\* A caller invokes cacheService.get(key), for a key of `keys`.
StartGetOn(c, keys) ==
  /\ cl[c].pc = "idle"
  /\ \E k \in keys :
       Upd(c, [IdleClient EXCEPT !.pc = "get_read", !.op = "get", !.key = k])
  /\ UNCHANGED <<now, redisUp, store, cas, ai, hist, keygen>>

\* A caller invokes cacheService.set(key, value, ttl); the value is anything
\* but undefined, so it may be falsy.
StartSetOn(c, keys) ==
  /\ cl[c].pc = "idle"
  /\ \E k \in keys, v \in PlainVals \cup {FalsyVal}, ttl \in TTLs :
       Upd(c, [IdleClient EXCEPT !.pc = "set_build", !.op = "set", !.key = k,
                                 !.val = v, !.ttl = ttl])
  /\ UNCHANGED <<now, redisUp, store, cas, ai, hist, keygen>>

\* A caller invokes cacheService.getOrSet(key, fetchFunction, ttl) with an
\* arbitrary fetchFunction.
StartGetOrSetOn(c, keys) ==
  /\ cl[c].pc = "idle"
  /\ \E k \in keys, ttl \in TTLs :
       Upd(c, [IdleClient EXCEPT !.pc = "get_read", !.op = "getOrSet",
                                 !.prod = "plain", !.key = k, !.ttl = ttl])
  /\ UNCHANGED <<now, redisUp, store, cas, ai, hist, keygen>>

\* A getOrSet that fetches whatever get returned.
AfterGetIgnoringCache(r, d) ==
  IF r.op = "get"
    THEN [r EXCEPT !.pc = "done", !.retVal = d]
    ELSE [r EXCEPT !.pc = "fetch"]

\* What get(key) hands back to its caller: the caller of get itself, or the
\* continuation of getOrSet after `const cached = await this.get(key)`.
AfterGet(r, d) ==
  IF r.op = "get"
    THEN [r EXCEPT !.pc = "done", !.retVal = d]
    ELSE IF Truthy(d)
      THEN [r EXCEPT !.pc = "done", !.ret = Result(d, TRUE, "cache")]
      ELSE [r EXCEPT !.pc = "fetch"]

\* get: await connect(); await redis.get(key); parse; isExpired ? delete : data.
\* JSON.parse yields the value the stored text denotes.  A rejected connect or
\* command is caught and get returns null.
GetRead(c) ==
  /\ cl[c].pc = "get_read"
  /\ LET r == cl[c]
         e == store[r.key]
         s == [r EXCEPT !.snap = IF redisUp THEN e ELSE NoEntry,
                        !.snapAge = IF redisUp /\ e.t # "none" THEN now - e.timestamp ELSE 0,
                        !.snapUp = redisUp]
     IN  IF ~redisUp \/ e.t = "none"
           THEN Upd(c, AfterGet(s, FalsyVal))
           ELSE IF IsExpired(e, now)
             THEN Upd(c, [s EXCEPT !.pc = "get_del"])
             ELSE Upd(c, AfterGet(s, e.data))
  /\ UNCHANGED <<now, redisUp, store, cas, ai, hist, keygen>>

\* get, expired branch: await this.delete(key); return null.  delete catches
\* its own failure.
GetDel(c) ==
  /\ cl[c].pc = "get_del"
  /\ store' = IF redisUp THEN [store EXCEPT ![cl[c].key] = NoEntry] ELSE store
  /\ Upd(c, AfterGet(cl[c], FalsyVal))
  /\ UNCHANGED <<now, redisUp, cas, ai, hist, keygen>>

\* What set(...) hands back: to the caller of set, or to getOrSet, which
\* ignores the boolean and returns the fresh data with source 'api'.  retOk
\* keeps the boolean of the write either way.
AfterSet(r, ok) ==
  IF r.op = "set"
    THEN [r EXCEPT !.pc = "done", !.retOk = ok]
    ELSE [r EXCEPT !.pc = "done", !.retOk = ok, !.ret = Result(r.val, FALSE, "api")]

\* set: await connect(); build cacheEntry = {data, timestamp: Date.now(),
\* ttl: ttl * 1000, source: 'cache'}.  The entry is written by SetWrite.
SetBuild(c) ==
  /\ cl[c].pc = "set_build"
  /\ LET r == cl[c]
     IN  IF redisUp
           THEN Upd(c, [r EXCEPT !.pc = "set_write", !.stamp = now])
           ELSE Upd(c, AfterSet(r, FALSE))
  /\ UNCHANGED <<now, redisUp, store, cas, ai, hist, keygen>>

\* A write that leaves a key that is already set as it is.
SetexIfAbsent(st, key, entry) ==
  IF st[key] = NoEntry THEN [st EXCEPT ![key] = entry] ELSE st

\* SETEX: the key holds the new entry whatever it held before.
Setex(st, key, entry) == [st EXCEPT ![key] = entry]

\* set: await redis.setex(key, ttl, JSON.stringify(cacheEntry)); return true.
SetWrite(c) ==
  /\ cl[c].pc = "set_write"
  /\ LET r == cl[c]
     IN  IF redisUp
           THEN /\ store' = Setex(store, r.key,
                     [t |-> "entry", data |-> JsonStringify(r.val), timestamp |-> r.stamp,
                      ttl |-> r.ttl * MsPerSec, source |-> "cache",
                      exp |-> now + r.ttl * MsPerSec])
                /\ Upd(c, AfterSet([r EXCEPT !.over = store[r.key]], TRUE))
           ELSE /\ store' = store
                /\ Upd(c, AfterSet([r EXCEPT !.stamp = 0], FALSE))
  /\ UNCHANGED <<now, redisUp, cas, ai, hist, keygen>>

\* The cron job or the admin route invokes cacheService.clearExpired().
StartClearExpired(c) ==
  /\ cl[c].pc = "idle"
  /\ Upd(c, [IdleClient EXCEPT !.pc = "clear_connect", !.op = "clearExpired"])
  /\ UNCHANGED <<now, redisUp, store, cas, ai, hist, keygen>>

\* clearExpired: await connect(); log; return true.  No key is read or
\* deleted; a rejected connect is caught and clearExpired returns false.
ClearExpired(c) ==
  /\ cl[c].pc = "clear_connect"
  /\ Upd(c, [cl[c] EXCEPT !.pc = "done", !.retOk = redisUp])
  /\ UNCHANGED <<now, redisUp, store, cas, ai, hist, keygen>>

\* The outcomes of one call of an arbitrary fetchFunction.
ProducerOutcomes ==
  {[t |-> "value", v |-> d] : d \in PlainVals \cup {FalsyVal}} \cup {[t |-> "throw"]}

\* getOrSet after a miss: const freshData = await fetchFunction().
\* Truthy data is cached through set; falsy data makes getOrSet return null;
\* an exception enters the catch block.
AfterFetch(r, o) ==
  IF o.t = "throw"
    THEN [r EXCEPT !.pc = "retry", !.calls = @ + 1]
    ELSE IF Truthy(o.v)
      THEN [r EXCEPT !.pc = "set_build", !.calls = @ + 1, !.val = o.v]
      ELSE [r EXCEPT !.pc = "done", !.calls = @ + 1, !.ret = NullResult]

\* A catch block that hands the value of the second call to set.
AfterRetryCaching(r, o) ==
  IF o.t = "throw"
    THEN [r EXCEPT !.pc = "done", !.calls = @ + 1, !.ret = NullResult]
    ELSE [r EXCEPT !.pc = "set_build", !.calls = @ + 1, !.val = o.v]

\* getOrSet, catch block: const freshData = await fetchFunction() once more;
\* its value is returned uncached with source 'api-fallback', a second
\* exception makes getOrSet return null.
AfterRetry(r, o) ==
  IF o.t = "throw"
    THEN [r EXCEPT !.pc = "done", !.calls = @ + 1, !.ret = NullResult]
    ELSE [r EXCEPT !.pc = "done", !.calls = @ + 1,
                   !.ret = Result(o.v, FALSE, "api-fallback")]

GosFetch(c) ==
  /\ cl[c].pc = "fetch"
  /\ cl[c].prod = "plain"
  /\ \E o \in ProducerOutcomes : Upd(c, AfterFetch(cl[c], o))
  /\ UNCHANGED <<now, redisUp, store, cas, ai, hist, keygen>>

GosRetry(c) ==
  /\ cl[c].pc = "retry"
  /\ cl[c].prod = "plain"
  /\ \E o \in ProducerOutcomes : Upd(c, AfterRetry(cl[c], o))
  /\ UNCHANGED <<now, redisUp, store, cas, ai, hist, keygen>>

\* The caller has taken the result; the client is free for the next call.
Return(c) ==
  /\ cl[c].pc = "done"
  /\ Upd(c, [IdleClient EXCEPT !.served = cl[c].served])
  /\ UNCHANGED <<now, redisUp, store, cas, ai, hist, keygen>>

\* The same, with the call kept for the caller's next call to be compared
\* with.
ReturnKept(c) ==
  /\ cl[c].pc = "done"
  /\ Upd(c, [IdleClient EXCEPT !.served = cl[c].served])
  /\ hist' = [hist EXCEPT ![c] = KeptCall(cl[c], now)]
  /\ UNCHANGED <<now, redisUp, store, cas, ai, keygen>>

(***************************************************************************)
(* The provider cascades: HotelsService.fetchHotelsFromAPIs,               *)
(* FlightsService.fetchFlightsFromAPIs, WeatherService.fetchWeatherFromAPIs*)
(***************************************************************************)
Kinds == {"hotels", "flights", "weather"}

\* The providers of each kind in the order the code tries them, by the name
\* recorded in errors[].provider ...
Providers(kind) ==
  CASE kind = "hotels"  -> <<"Booking.com", "Expedia", "Airbnb">>
    [] kind = "flights" -> <<"Amadeus", "Skyscanner", "Google Flights">>
    [] kind = "weather" -> <<"OpenWeather", "WeatherAPI">>

\* ... and by the source tag their transform puts on every record.
SourceTags(kind) ==
  CASE kind = "hotels"  -> <<"booking", "expedia", "airbnb">>
    [] kind = "flights" -> <<"amadeus", "skyscanner", "google">>
    [] kind = "weather" -> <<"openweather", "weatherapi">>

NumProviders(kind) == Len(Providers(kind))

HotelsExpediaBelow     == 8   \* if (results.length < 8) try Expedia
HotelsAirbnbBelow      == 5   \* if (results.length < 5) try Airbnb
FlightsSkyscannerBelow == 5   \* if (results.length < 5) try Skyscanner
FlightsGoogleBelow     == 3   \* if (results.length < 3) try Google Flights
HotelsTopN             == 25  \* sortedResults.slice(0, 25)
FlightsTopN            == 20  \* sortedResults.slice(0, 20)
FallbackHotelCount     == 8   \* Array.from({ length: 8 }, ...)
FallbackFlightCount    == 5   \* Array.from({ length: 5 }, ...)
FallbackAirlineCount   == 4   \* airlines[i % airlines.length]

\* The guard in front of the call of provider i: the first provider is always
\* called, the others only while too few results have been collected.
ShouldCall(kind, i, results) ==
  CASE i = 1 -> TRUE
    [] kind = "hotels"  /\ i = 2 -> Len(results) < HotelsExpediaBelow
    [] kind = "hotels"  /\ i = 3 -> Len(results) < HotelsAirbnbBelow
    [] kind = "flights" /\ i = 2 -> Len(results) < FlightsSkyscannerBelow
    [] kind = "flights" /\ i = 3 -> Len(results) < FlightsGoogleBelow
    [] kind = "weather" /\ i = 2 -> Len(results) = 0
    [] OTHER -> FALSE

\* The sizes of the lists an upstream answers with: in a cascade that is
\* run on its own, and in a cascade that runs behind the cache.
ReplySizes == {0, 2, 4, 5, 8, HotelsTopN + 1}
SearchReplySizes == {0, 5}
ReplySizesFor(owner) == IF owner = "direct" THEN ReplySizes ELSE SearchReplySizes

\* The forecast lengths a weather upstream answers with, for a request of
\* `days` days.
ForecastSizes(days) == {0, days}

\* The days argument of getWeatherForecast.
DayArgs == {1, 7}

\* Strings are sequences of character codes; Hyphen is the character '-'.
Hyphen == 0

\* The identity of record j of provider i's answer: name and location of a
\* hotel; airline, flight number and departure time of a flight.  Record
\* j + 1 of a provider is the same hotel or flight as record j of the next
\* provider, except that Booking.com's second hotel is <<"2-50", "99">> where
\* Expedia's first is <<"2", "50-99">>: two hotels whose names and locations
\* differ.
UpstreamIdent(kind, i, j) ==
  LET n == j + (i - 1)
  IN  IF kind = "hotels"
        THEN << IF n = 2 /\ i = 1 THEN <<n, Hyphen, 50>> ELSE <<n>>,
                IF n = 2 /\ i = 2 THEN <<50, Hyphen, 99>> ELSE <<99>> >>
        ELSE << <<n>>, <<7>>, <<8>> >>

\* What the upstream of provider i holds: record j of its answer, after the
\* provider's transform.  Identities overlap between providers and prices
\* repeat, so that duplicates and ties occur.  Booking.com's fourth hotel
\* comes without review_score and without min_total_price, so that its
\* rating, review_score / 2, and its price, parseFloat(undefined), are NaN
\* (priceIs tells whether price is a number); a flight has no rating.
UpstreamItem(kind, i, j) ==
  [ident   |-> UpstreamIdent(kind, i, j),
   price   |-> ((2 * i + 3 * j) % 5) + 1,
   priceIs |-> IF kind = "hotels" /\ i = 1 /\ j = 4 THEN "NaN" ELSE "num",
   rating  |-> IF kind # "hotels" THEN "none"
               ELSE IF i = 1 /\ j = 4 THEN "NaN" ELSE "num",
   source  |-> SourceTags(kind)[i]]

\* The value a successful call of provider i resolves to, for upstream
\* answers of the given sizes.  searchSkyscanner returns [] whatever the
\* upstream sent; a weather provider returns one forecast object.
ProviderReplies(kind, i, days, sizes) ==
  IF kind = "weather"
    THEN {[source |-> SourceTags(kind)[i], forecast |-> n] : n \in ForecastSizes(days)}
    ELSE IF kind = "flights" /\ i = 2
      THEN {<< >>}
      ELSE {[j \in 1..n |-> UpstreamItem(kind, i, j)] : n \in sizes}

\* The ways a provider call rejects: the axios timeout, or any other failure
\* (missing key, authentication, a payload the transform cannot read).
FailReasons == {"timeout", "error"}

\* Behind the cache the timeout stands for every rejection: the catch block
\* treats them alike.
FailReasonsFor(owner) == IF owner = "direct" THEN FailReasons ELSE {"timeout"}

\* Provider calls of which the first carries no timeout: a hung upstream
\* never settles.
CallOutcomesUnbounded(c, p) ==
  IF p = 1 THEN {}
  ELSE {[t |-> "reply", reply |-> r] :
          r \in ProviderReplies(c.kind, p, c.days, ReplySizesFor(c.owner))}
         \cup {[t |-> "fail", reason |-> x] : x \in FailReasonsFor(c.owner)}

\* Every way the call of provider p settles in run c.  Each call carries an
\* axios timeout, so it settles: it resolves with a reply or rejects.
CallOutcomes(c, p) ==
  {[t |-> "reply", reply |-> r] :
     r \in ProviderReplies(c.kind, p, c.days, ReplySizesFor(c.owner))}
    \cup {[t |-> "fail", reason |-> x] : x \in FailReasonsFor(c.owner)}

\* The results array after a successful call: hotels and flights keep a
\* non-empty list, weather keeps any truthy result object.
Collect(kind, results, reply) ==
  IF kind = "weather"
    THEN Append(results, reply)
    ELSE IF Len(reply) > 0 THEN results \o reply ELSE results

\* How many records a reply contributes to results.
Contribution(kind, reply) == IF kind = "weather" THEN 1 ELSE Len(reply)

\* How many items a reply carries: hotels, flights, or forecast days.
ItemCount(kind, reply) == IF kind = "weather" THEN reply.forecast ELSE Len(reply)

\* generateFallbackHotels / generateFallbackFlights / generateFallbackWeather.
\* rnd stands for the Math.random() draws: it fixes the prices, and for
\* flights whether the first and the fifth flight number coincide.
FallbackResults(kind, days, rnd) ==
  CASE kind = "hotels" ->
         [j \in 1..FallbackHotelCount |->
            [ident |-> << <<100 + j>>, <<98>> >>,
             price |-> ((rnd + 2 * j) % 3) + 1, priceIs |-> "num",
             rating |-> "num", source |-> "fallback"]]
    [] kind = "flights" ->
         [j \in 1..FallbackFlightCount |->
            [ident |-> << <<100 + ((j - 1) % FallbackAirlineCount)>>,
                          <<IF rnd = 0 THEN 1000 ELSE 1000 + j>>,
                          <<8>> >>,
             price |-> ((rnd + 2 * j) % 3) + 1, priceIs |-> "num",
             rating |-> "none", source |-> "fallback"]]
    [] kind = "weather" ->
         << [source |-> "fallback", forecast |-> days] >>

RandomDraws == {0, 1, 2}
RandomDrawsFor(owner) == IF owner = "direct" THEN RandomDraws ELSE {1}

\* if (results.length === 0) results.push(...fallback)
NeedsFallback(results) == Len(results) = 0

\* `${hotel.name}-${hotel.location}` and
\* `${flight.airline}-${flight.flightNumber}-${flight.departure.time}`: the
\* components of the identity, joined by hyphens.
IdentityKey(item) ==
  IF Len(item.ident) = 2
    THEN item.ident[1] \o <<Hyphen>> \o item.ident[2]
    ELSE item.ident[1] \o <<Hyphen>> \o item.ident[2] \o <<Hyphen>> \o item.ident[3]

\* A de-duplication that keeps every record.
RemoveDuplicatesKeepingAll(items, seen) == items

\* A de-duplication that keeps the last record of every key string.
RemoveDuplicatesKeepingLast(items, seen) ==
  LET kept == {j \in 1..Len(items) :
                 \A k \in (j + 1)..Len(items) : IdentityKey(items[k]) # IdentityKey(items[j])}
      Pick[j \in 0..Len(items)] ==
        IF j = 0 THEN << >>
        ELSE IF j \in kept THEN Pick[j - 1] \o <<items[j]>> ELSE Pick[j - 1]
  IN  Pick[Len(items)]

RECURSIVE RemoveDuplicates(_, _)
\* removeDuplicateHotels / removeDuplicateFlights: keep the first record of
\* every key string.
RemoveDuplicates(items, seen) ==
  IF items = << >> THEN << >>
  ELSE IF IdentityKey(Head(items)) \in seen
    THEN RemoveDuplicates(Tail(items), seen)
    ELSE <<Head(items)>> \o
           RemoveDuplicates(Tail(items), seen \cup {IdentityKey(Head(items))})

\* The records the cascades collect: identity, price, rating, source tag.
ItemRecs ==
  [ident : Seq(Seq(Nat)), price : Nat, priceIs : {"num", "NaN", "null"},
   rating : {"num", "NaN", "null", "none"}, source : STRING]

\* One insertion of an insertion sort under the comparator
\* (a, b) => a.price - b.price, whose value is NaN, and counts as 0, when one
\* of the prices is NaN.  The record a[2] enters the sorted list a[1]: scanning
\* from the front it goes before the first record the comparator puts it
\* before; scanning from the back it goes behind the last record the
\* comparator does not put behind it.
InsertByPrice[a \in Seq(ItemRecs) \X ItemRecs \X {"front", "back"}] ==
  LET Before(x, y) == x.priceIs = "num" /\ y.priceIs = "num" /\ x.price < y.price
      list == a[1]
      n    == Len(list)
  IN  IF list = << >> THEN <<a[2]>>
      ELSE IF a[3] = "front"
        THEN IF Before(a[2], Head(list))
               THEN <<a[2]>> \o list
               ELSE <<Head(list)>> \o InsertByPrice[<<Tail(list), a[2], a[3]>>]
        ELSE IF Before(a[2], list[n])
               THEN InsertByPrice[<<SubSeq(list, 1, n - 1), a[2], a[3]>>] \o <<list[n]>>
               ELSE list \o <<a[2]>>

SortedByPrice[b \in Seq(ItemRecs) \X {"front", "back"}] ==
  IF b[1] = << >> THEN << >>
  ELSE InsertByPrice[<<SortedByPrice[<<SubSeq(b[1], 1, Len(b[1]) - 1), b[2]>>],
                       b[1][Len(b[1])], b[2]>>]

\* Array.prototype.sort((a, b) => a.price - b.price): ascending and stable
\* when every price is a number.  With a NaN price the comparator is not
\* consistent and the order depends on the engine's algorithm; scan names the
\* algorithm of this run.
SortByPrice(items, scan) == SortedByPrice[<<items, scan>>]

\* slice(0, n)
Slice(items, n) == SubSeq(items, 1, IF Len(items) < n THEN Len(items) ELSE n)

RECURSIVE DistinctSources(_, _)
\* getSourcesUsed: Array.from(new Set(results.map(r => r.source)))
DistinctSources(items, seen) ==
  IF items = << >> THEN << >>
  ELSE IF Head(items).source \in seen
    THEN DistinctSources(Tail(items), seen)
    ELSE <<Head(items).source>> \o DistinctSources(Tail(items), seen \cup {Head(items).source})

TopN(kind) == IF kind = "hotels" THEN HotelsTopN ELSE FlightsTopN

\* errors: errors.length > 0 ? errors : undefined
ErrorsField(errors) == [defined |-> Len(errors) > 0, list |-> errors]

\* fallbackUsed: results.length === 0 || results.some(r => r.source === 'fallback')
FallbackUsed(results) ==
  Len(results) = 0 \/ \E j \in 1..Len(results) : results[j].source = "fallback"

\* The object the cascade returns, from the final results and errors arrays.
Aggregate(kind, results, errors, scan) ==
  IF kind = "weather"
    THEN [t |-> "agg", kind |-> kind,
          items |-> <<results[1]>>,
          totalFound |-> 1,
          sources |-> [j \in 1..Len(results) |-> results[j].source],
          errors |-> ErrorsField(errors),
          fallbackUsed |-> FallbackUsed(results)]
    ELSE LET sorted == SortByPrice(RemoveDuplicates(results, {}), scan)
         IN  [t |-> "agg", kind |-> kind,
              items |-> Slice(sorted, TopN(kind)),
              totalFound |-> Len(sorted),
              sources |-> DistinctSources(results, {}),
              errors |-> ErrorsField(errors),
              fallbackUsed |-> FallbackUsed(results)]

NoAgg == [t |-> "falsy"]

NoCascade ==
  [pc |-> "idle", kind |-> "hotels", days |-> 0, owner |-> "none", idx |-> 1,
   inflight |-> {}, results |-> << >>, errors |-> << >>,
   started |-> << >>, out |-> << >>, got |-> << >>, ret |-> NoAgg]

\* A cascade run begins: const results = []; const errors = [].
\* started, out and got record the run for the properties: the providers
\* called, in call order, and per provider its outcome and contribution.
BeginCascade(kind, days, owner) ==
  [NoCascade EXCEPT !.pc = "run", !.kind = kind, !.days = days, !.owner = owner,
                    !.out = [i \in 1..NumProviders(kind) |-> "notcalled"],
                    !.got = [i \in 1..NumProviders(kind) |-> 0]]

\* A cascade that issues the next call without awaiting the previous one.
SettledUnawaited(c) == TRUE

\* The previous await has settled: no provider call is outstanding.
Settled(c) == c.inflight = {}

\* The run after provider p's call resolved with reply.
AfterReply(c, p, reply) ==
  [c EXCEPT !.inflight = @ \ {p},
            !.results = Collect(c.kind, @, reply),
            !.out[p] = IF ItemCount(c.kind, reply) > 0 THEN "items" ELSE "empty",
            !.got[p] = Contribution(c.kind, reply)]

\* A cascade whose first rejection leaves the provider sequence.
AfterFailureAborting(c, p, reason) ==
  [c EXCEPT !.inflight = @ \ {p},
            !.errors = Append(@, [provider |-> Providers(c.kind)[p], error |-> reason]),
            !.out[p] = "failed",
            !.idx = NumProviders(c.kind) + 1]

\* A cascade in which a rejection discards what was collected before it.
AfterFailureDropping(c, p, reason) ==
  [c EXCEPT !.inflight = @ \ {p},
            !.results = << >>,
            !.errors = Append(@, [provider |-> Providers(c.kind)[p], error |-> reason]),
            !.out[p] = "failed"]

\* The run after provider p's call rejected: the catch block records the
\* error and the function goes on to the next provider.
AfterFailure(c, p, reason) ==
  [c EXCEPT !.inflight = @ \ {p},
            !.errors = Append(@, [provider |-> Providers(c.kind)[p], error |-> reason]),
            !.out[p] = "failed"]

\* The run once every provider has been tried or skipped.
AfterProviders(c, rnd, scan) ==
  LET results == IF NeedsFallback(c.results)
                   THEN c.results \o FallbackResults(c.kind, c.days, rnd)
                   ELSE c.results
  IN  [c EXCEPT !.pc = "done", !.results = results,
                !.ret = Aggregate(c.kind, results, c.errors, scan)]

\* fetchXFromAPIs is called directly.
CascadeStart ==
  /\ cas.pc = "idle"
  /\ \E kind \in Kinds, days \in DayArgs :
       /\ kind # "weather" => days = 7
       /\ cas' = BeginCascade(kind, days, "direct")
  /\ UNCHANGED <<now, redisUp, store, cl, ai, hist, keygen>>

\* try { const r = await this.searchX(params) ...: the call of the next
\* provider starts.
CallProvider ==
  /\ cas.pc = "run"
  /\ Settled(cas)
  /\ cas.idx <= NumProviders(cas.kind)
  /\ ShouldCall(cas.kind, cas.idx, cas.results)
  /\ cas' = [cas EXCEPT !.inflight = @ \cup {cas.idx},
                        !.started = Append(@, cas.idx),
                        !.idx = @ + 1]
  /\ UNCHANGED <<now, redisUp, store, cl, ai, hist, keygen>>

\* if (results.length < N) is false: the provider is not called.
SkipProvider ==
  /\ cas.pc = "run"
  /\ Settled(cas)
  /\ cas.idx <= NumProviders(cas.kind)
  /\ ~ShouldCall(cas.kind, cas.idx, cas.results)
  /\ cas' = [cas EXCEPT !.idx = @ + 1]
  /\ UNCHANGED <<now, redisUp, store, cl, ai, hist, keygen>>

\* The outstanding call resolves.
ProviderReturns ==
  /\ cas.pc = "run"
  /\ \E p \in cas.inflight :
       \E o \in CallOutcomes(cas, p) :
         /\ o.t = "reply"
         /\ cas' = AfterReply(cas, p, o.reply)
  /\ UNCHANGED <<now, redisUp, store, cl, ai, hist, keygen>>

\* The outstanding call rejects; a timeout is one of the rejections.
ProviderFails ==
  /\ cas.pc = "run"
  /\ \E p \in cas.inflight :
       \E o \in CallOutcomes(cas, p) :
         /\ o.t = "fail"
         /\ cas' = AfterFailure(cas, p, o.reason)
  /\ UNCHANGED <<now, redisUp, store, cl, ai, hist, keygen>>

\* Fallback, de-duplication, sort, truncation and the returned object.
CascadeFinish ==
  /\ cas.pc = "run"
  /\ Settled(cas)
  /\ cas.idx > NumProviders(cas.kind)
  /\ \E rnd \in RandomDrawsFor(cas.owner), scan \in {"front", "back"} :
       /\ ~NeedsFallback(cas.results) => rnd = 1
       /\ cas' = AfterProviders(cas, rnd, scan)
  /\ UNCHANGED <<now, redisUp, store, cl, ai, hist, keygen>>

\* The direct caller takes the returned object.
CascadeReturn ==
  /\ cas.pc = "done"
  /\ cas.owner = "direct"
  /\ cas' = [NoCascade EXCEPT !.kind = cas.kind]
  /\ UNCHANGED <<now, redisUp, store, cl, ai, hist, keygen>>

InitCascade ==
  /\ now = 0
  /\ redisUp = TRUE
  /\ store = [k \in Keys |-> NoEntry]
  /\ cl = [c \in Clients |-> IdleClient]
  /\ hist = [c \in Clients |-> NoCall]
  /\ keygen = NoKeyGen
  /\ cas = NoCascade
  /\ ai = [pc |-> "idle"]

NextCascade ==
  \/ CascadeStart
  \/ CallProvider
  \/ SkipProvider
  \/ ProviderReturns
  \/ ProviderFails
  \/ CascadeFinish
  \/ CascadeReturn

SpecCascade == InitCascade /\ [][NextCascade]_vars

NoItinerary == [pc |-> "idle"]

InitCache ==
  /\ now = 0
  /\ redisUp = TRUE
  /\ store = [k \in Keys |-> NoEntry]
  /\ cl = [c \in Clients |-> IdleClient]
  /\ hist = [c \in Clients |-> NoCall]
  /\ keygen = NoKeyGen
  /\ cas = NoCascade
  /\ ai = NoItinerary

\* One caller at a time: the sequential behaviour of the cache.
CacheStep(c) ==
  \/ StartGetOn(c, UserKeys)
  \/ StartSetOn(c, UserKeys)
  \/ StartGetOrSetOn(c, UserKeys)
  \/ GetRead(c)
  \/ GetDel(c)
  \/ SetBuild(c)
  \/ SetWrite(c)
  \/ GosFetch(c)
  \/ GosRetry(c)
  \/ StartClearExpired(c)
  \/ ClearExpired(c)
  \/ Return(c)

NextCache ==
  \/ Tick
  \/ RedisFail
  \/ RedisRecover
  \/ CacheStep("c1")

SpecCache == InitCache /\ [][NextCache]_vars

(***************************************************************************)
(* One caller making one call after the other on the same key.             *)
(***************************************************************************)
TripKeys == {"k1"}

RoundTripStep(c) ==
  \/ StartGetOn(c, TripKeys)
  \/ StartSetOn(c, TripKeys)
  \/ StartGetOrSetOn(c, TripKeys)
  \/ GetRead(c)
  \/ GetDel(c)
  \/ SetBuild(c)
  \/ SetWrite(c)
  \/ GosFetch(c)
  \/ GosRetry(c)
  \/ ReturnKept(c)

NextRoundTrip ==
  \/ Tick
  \/ RedisFail
  \/ RedisRecover
  \/ RoundTripStep("c1")

SpecRoundTrip == InitCache /\ [][NextRoundTrip]_vars

(***************************************************************************)
(* searchHotels / searchFlights / getWeatherForecast: the cascade behind   *)
(* getOrSet.  A behaviour follows one of the three services; cas.kind      *)
(* names it from the initial state on.                                     *)
(***************************************************************************)
MaxWindows  == 1    \* the clock of a search is sampled at 0..MaxWindows cache lifetimes
MaxSearches == 2    \* searches a caller makes in one behaviour
Searchers   == {"c1"}

HotelsTTL  == 3600  \* 1 hour cache for hotels
FlightsTTL == 1800  \* 30 minutes cache for flights
WeatherTTL == 1800  \* 30 minutes cache for weather
DefaultDays == 7    \* getWeatherForecast(location, days = 7)

SearchTTL(kind) ==
  CASE kind = "hotels"  -> HotelsTTL
    [] kind = "flights" -> FlightsTTL
    [] kind = "weather" -> WeatherTTL

\* The cache key of the one request the behaviour repeats.
SearchKey(kind) ==
  CASE kind = "hotels"  -> "hotels:q"
    [] kind = "flights" -> "flights:q"
    [] kind = "weather" -> "weather:q:7"

SearchTimes(kind) ==
  {m * SearchTTL(kind) * MsPerSec + o : m \in 0..MaxWindows, o \in {0, 1}}

TickSearch == TickTo(SearchTimes(cas.kind))

\* A caller invokes searchHotels / searchFlights / getWeatherForecast.
StartSearch(c) ==
  /\ cl[c].pc = "idle"
  /\ cas.pc = "idle"
  /\ cl[c].served < MaxSearches
  /\ Upd(c, [IdleClient EXCEPT !.pc = "get_read", !.op = "getOrSet",
                               !.prod = cas.kind, !.key = SearchKey(cas.kind),
                               !.ttl = SearchTTL(cas.kind),
                               !.served = cl[c].served + 1])
  /\ UNCHANGED <<now, redisUp, store, cas, ai, hist, keygen>>

\* getOrSet after a miss: fetchFunction() starts the cascade.
GosFetchCascade(c) ==
  /\ cl[c].pc = "fetch"
  /\ cl[c].prod \in Kinds
  /\ cas.pc = "idle"
  /\ cas' = BeginCascade(cl[c].prod, DefaultDays, c)
  /\ Upd(c, [cl[c] EXCEPT !.pc = "fetch_wait"])
  /\ UNCHANGED <<now, redisUp, store, ai, hist, keygen>>

\* The cascade has returned its object: const freshData = await fetchFunction().
GosFetchDone(c) ==
  /\ cl[c].pc = "fetch_wait"
  /\ cas.pc = "done"
  /\ cas.owner = c
  /\ Upd(c, AfterFetch(cl[c], [t |-> "value", v |-> cas.ret]))
  /\ cas' = [NoCascade EXCEPT !.kind = cas.kind]
  /\ UNCHANGED <<now, redisUp, store, ai, hist, keygen>>

InitSearch ==
  /\ now = 0
  /\ redisUp = TRUE
  /\ store = [k \in Keys |-> NoEntry]
  /\ cl = [c \in Clients |-> IdleClient]
  /\ hist = [c \in Clients |-> NoCall]
  /\ keygen = NoKeyGen
  /\ \E kind \in Kinds : cas = [NoCascade EXCEPT !.kind = kind]
  /\ ai = NoItinerary

\* The steps the event loop runs on behalf of a search in progress.
SearchProgress(c) ==
  \/ GetRead(c)
  \/ GetDel(c)
  \/ GosFetchCascade(c)
  \/ CallProvider
  \/ SkipProvider
  \/ ProviderReturns
  \/ ProviderFails
  \/ CascadeFinish
  \/ GosFetchDone(c)
  \/ SetBuild(c)
  \/ SetWrite(c)

NextSearch ==
  \/ TickSearch
  \/ RedisFail
  \/ RedisRecover
  \/ \E c \in Searchers : StartSearch(c) \/ SearchProgress(c) \/ Return(c)

\* The event loop runs every continuation that is ready, Redis commands
\* settle (resolve or reject), and provider calls settle by CallOutcomes.
SpecSearch ==
  InitSearch /\ [][NextSearch]_vars /\ \A c \in Searchers : WF_vars(SearchProgress(c))

(***************************************************************************)
(* Two callers, each making one getOrSet call on the same key, their steps *)
(* interleaved by the event loop.                                          *)
(***************************************************************************)
\* A caller that has made no call yet invokes getOrSet on the shared key.
StartRace(c) ==
  /\ cl[c].pc = "idle"
  /\ cl[c].served = 0
  /\ \E k \in TripKeys, ttl \in TTLs :
       Upd(c, [IdleClient EXCEPT !.pc = "get_read", !.op = "getOrSet",
                                 !.prod = "plain", !.key = k, !.ttl = ttl,
                                 !.served = 1])
  /\ UNCHANGED <<now, redisUp, store, cas, ai, hist, keygen>>

RaceStep(c) ==
  \/ StartRace(c)
  \/ GetRead(c)
  \/ GetDel(c)
  \/ GosFetch(c)
  \/ GosRetry(c)
  \/ SetBuild(c)
  \/ SetWrite(c)

NextRace ==
  \/ Tick
  \/ RedisFail
  \/ RedisRecover
  \/ \E c \in Clients : RaceStep(c)

SpecRace == InitCache /\ [][NextRace]_vars

(***************************************************************************)
(* Two callers making get and set calls on the same key, one call after    *)
(* the other each, their steps interleaved by the event loop.              *)
(***************************************************************************)
NextEvict ==
  \/ Tick
  \/ \E c \in Clients :
       \/ StartGetOn(c, TripKeys)
       \/ StartSetOn(c, TripKeys)
       \/ GetRead(c)
       \/ GetDel(c)
       \/ SetBuild(c)
       \/ SetWrite(c)
       \/ Return(c)

SpecEvict == InitCache /\ [][NextEvict]_vars

\* The same searches, each kept on return for the next to be compared with.
NextRepeat ==
  \/ TickSearch
  \/ RedisFail
  \/ RedisRecover
  \/ \E c \in Searchers : StartSearch(c) \/ SearchProgress(c) \/ ReturnKept(c)

SpecRepeat == InitSearch /\ [][NextRepeat]_vars

(***************************************************************************)
(* AIPlannerService: generateItinerary, createAIItinerary and the parsing  *)
(* of the generation backend's reply.  A behaviour follows one request;    *)
(* ai.req names it from the initial state on.                              *)
(***************************************************************************)
MaxDuration == 3    \* request.duration ranges over 1..MaxDuration
MaxTextLen  == 3    \* a reply of the generation backend has at most MaxTextLen tokens

ItineraryTTL        == 7200  \* 2 hours cache for AI-generated itineraries
ShortTripBelow      == 3     \* request.duration < 3
LongTripAbove       == 21    \* request.duration > 21
ConfidenceValidated == 9     \* confidence: 0.9, in tenths
ConfidenceFromText  == 7     \* confidence: 0.7
ConfidenceFallback  == 5     \* confidence: 0.5
TextActivitiesMax   == 2     \* activities.slice(0, 2)

Planners == {"c1"}
Budgets  == {300, 2000}

\* Requests whose climate is a preference of the traveler, chosen apart from
\* the destination.
RequestsWithOwnClimate ==
  [duration : 1..MaxDuration, budget : Budgets, travelers : {1},
   dateValid : BOOLEAN, climate : {"any", "cold"}, destClimate : {"tropical"}]

\* The request the route hands to generateItinerary.  dateValid tells whether
\* new Date(request.departureDate) is a valid date: the route passes the
\* body's departureDate on unchecked.  climate is destination.climate || 'any';
\* the destination of the body has the climate "tropical" or none.
Requests ==
  {[duration |-> d, budget |-> b, travelers |-> 1, dateValid |-> v,
    climate |-> IF c = "undefined" THEN "any" ELSE c, destClimate |-> c] :
     d \in 1..MaxDuration, b \in Budgets, v \in BOOLEAN, c \in {"tropical", "undefined"}}

\* The requests the edge-case analysis and the plan adjustments are applied
\* to: durations on both sides of the bounds 3 and 21, budgets on both sides
\* of the 20% buffer, and a requested climate that is any, differs from, or
\* equals the destination's.
EdgeRequests ==
  [duration : {2, 3, 7, 21, 22}, budget : {500, 750, 10500, 37500}, travelers : {2},
   dateValid : {TRUE}, climate : {"any", "cold", "tropical"}, destClimate : {"tropical"}]

\* An estimate that leaves the travelers out.
EstimateTripCostPerDay(request) ==
  8 * request.budget + 500 * request.duration

\* estimateTripCost, times ten: budget * 0.8 + duration * 50 + travelers * 100.
EstimateTripCost(request) ==
  8 * request.budget + 500 * request.duration + 1000 * request.travelers

\* An analysis that counts the durations 3 and 21 as conflicts too.
AnalyzeEdgeCasesInclusive(request) ==
  [budgetConflict   |-> FALSE,
   suggestions      |-> << >>,
   durationConflict |-> IF request.duration <= ShortTripBelow THEN "short"
                        ELSE IF request.duration >= LongTripAbove THEN "long"
                        ELSE "none",
   climateConflict  |-> request.climate # "any" /\ request.destClimate # request.climate]

\* analyzeEdgeCases; estimatedCost > budget * 1.2 is compared times ten.
\* suggestions is budgetConflict.suggestions, durationConflict names the
\* reasoning that was written.
AnalyzeEdgeCases(request) ==
  [budgetConflict   |-> EstimateTripCost(request) > 12 * request.budget,
   suggestions      |-> IF EstimateTripCost(request) > 12 * request.budget
                          THEN <<"off-peak-season", "budget-accommodation",
                                 "fewer-activities", "cheaper-destination">>
                          ELSE << >>,
   durationConflict |-> IF request.duration < ShortTripBelow THEN "short"
                        ELSE IF request.duration > LongTripAbove THEN "long"
                        ELSE "none",
   climateConflict  |-> request.climate # "any" /\ request.destClimate # request.climate]

\* A reply of the backend is a sequence of tokens:
\*   lb, rb    the characters { and }
\*   prose     a sentence of more than ten characters, ending in a full stop
\*   daymark   a heading "Day <n>", which /day\s*\d+/i matches
\*   other     a member "totalCost": 0
\*   str       a member "itinerary": "see below"
\*   arr       a member "itinerary": [ ... ] with the listed day objects; a day
\*             is "schema" (the fields of the prompt's schema) or "acts" (the
\*             same with a member "activities": [])
Tok(k, days) == [k |-> k, days |-> days]
ArrDays == {<< >>, <<"schema">>, <<"acts">>, <<"acts", "acts">>}
Tokens ==
  {Tok(k, << >>) : k \in {"lb", "rb", "prose", "daymark", "other", "str"}}
    \cup {Tok("arr", d) : d \in ArrDays}
Texts == UNION {[1..n -> Tokens] : n \in 0..MaxTextLen}

HasOpen(tk)  == tk.k = "lb" \/ (tk.k = "arr" /\ Len(tk.days) > 0)
HasClose(tk) == tk.k = "rb" \/ (tk.k = "arr" /\ Len(tk.days) > 0)
IsMember(tk) == tk.k \in {"other", "str", "arr"}

\* responseText.match(/\{[\s\S]*\}/): from the first { to the last }.
JsonMatch(text) ==
  LET opens  == {i \in 1..Len(text) : HasOpen(text[i])}
      closes == {i \in 1..Len(text) : HasClose(text[i])}
      from   == IF opens = {} THEN 0 ELSE CHOOSE i \in opens : \A j \in opens : i <= j
      to     == IF closes = {} THEN 0 ELSE CHOOSE i \in closes : \A j \in closes : j <= i
  IN  IF from > 0 /\ to > 0 /\ (from < to \/ (from = to /\ text[from].k = "arr"))
        THEN [found |-> TRUE, from |-> from, to |-> to]
        ELSE [found |-> FALSE, from |-> 0, to |-> 0]

NoValue == [kind |-> "missing", days |-> << >>]

\* JSON.parse(jsonMatch[0]).  The match decodes when it is { members }; a
\* later member of the same name replaces an earlier one.  A match that is
\* one day object of an array decodes to that day, which has no itinerary
\* member.  Everything else is a SyntaxError.
JsonParse(text, m) ==
  LET inner == {i \in (m.from + 1)..(m.to - 1) : text[i].k \in {"str", "arr"}}
      last  == CHOOSE i \in inner : \A j \in inner : j <= i
  IN  IF /\ text[m.from].k = "lb"
         /\ text[m.to].k = "rb"
         /\ \A i \in (m.from + 1)..(m.to - 1) : IsMember(text[i])
        THEN [ok |-> TRUE,
              itinerary |-> IF inner = {} THEN NoValue
                            ELSE IF text[last].k = "str" THEN [kind |-> "string", days |-> << >>]
                            ELSE [kind |-> "array", days |-> text[last].days]]
        ELSE IF m.from = m.to /\ Len(text[m.from].days) = 1
          THEN [ok |-> TRUE, itinerary |-> NoValue]
          ELSE [ok |-> FALSE, itinerary |-> NoValue]

\* What a function of the parser hands back: a plan, or an exception.
NoPlan    == [t |-> "falsy"]
Thrown    == [threw |-> TRUE, plan |-> NoPlan]
RECURSIVE SumOf(_)
\* array.reduce((sum, x) => sum + x, 0)
SumOf(numbers) ==
  IF numbers = << >> THEN 0 ELSE Head(numbers) + SumOf(Tail(numbers))

\* calculateTotalCost(itinerary): the sum of the days' estimatedCost.
CalculateTotalCost(days) ==
  SumOf([d \in 1..Len(days) |-> days[d].estimatedCost])

\* calculateBudgetBreakdown(itinerary).  The products activities * 0.3 and
\* activities * 0.1 are taken in tenths; for the whole numbers below 100000
\* their floor is the floor of the double-precision product.
CalculateBudgetBreakdown(days) ==
  LET activities ==
        SumOf([d \in 1..Len(days) |->
                 SumOf([a \in 1..Len(days[d].activities) |-> days[d].activities[a].price])])
  IN  [accommodation  |-> (3 * activities) \div 10,
       activities     |-> activities,
       meals          |-> SumOf([d \in 1..Len(days) |-> days[d].meals]),
       transportation |-> SumOf([d \in 1..Len(days) |-> days[d].transportation]),
       miscellaneous  |-> activities \div 10]

\* The object the three tiers of the parser return: totalCost and
\* budgetBreakdown are computed from the days (a decoded reply carries
\* "totalCost": 0 at most, and no budgetBreakdown).
Plan(confidence, days, recs, warns) ==
  [threw |-> FALSE,
   plan  |-> [t |-> "plan", confidence |-> confidence, days |-> days,
              totalCost |-> CalculateTotalCost(days),
              budgetBreakdown |-> CalculateBudgetBreakdown(days),
              recommendations |-> recs, warnings |-> warns]]

\* A day of the itinerary: its index, its activities (name and price each),
\* its notes, its estimatedCost, and the costs of its meals and of its
\* transportation.
Day(index, acts, notes, cost, meals) ==
  [day |-> index, activities |-> acts, notes |-> notes, estimatedCost |-> cost,
   meals |-> meals, transportation |-> 0]

\* calculateDate: toISOString() of an invalid date throws a RangeError.
CalculateDateThrows(request) == ~request.dateValid

\* calculateDayDuration(day) reads day.activities.reduce: a TypeError for a
\* decoded day without an activities array.
CalculateDayDurationThrows(day) == day = "schema"

\* formatActivities(day): one activity per time slot of the decoded day, its
\* price parseFloat(cost) || 0.  A decoded day costs 90 in the morning, 25 in
\* the afternoon and nothing in the evening; its one meal costs 15 and its
\* totalDayCost is 130.
FormatActivities(day) ==
  << [name |-> "morning", price |-> 90], [name |-> "afternoon", price |-> 25],
     [name |-> "evening", price |-> 0] >>

\* validateAndEnhanceItinerary(parsed, request).
ValidateAndEnhanceItinerary(parsed, request) ==
  IF parsed.itinerary.kind # "array" THEN Thrown
  ELSE IF \E d \in 1..Len(parsed.itinerary.days) :
            CalculateDayDurationThrows(parsed.itinerary.days[d])
    THEN Thrown
    ELSE Plan(ConfidenceValidated,
              [d \in 1..Len(parsed.itinerary.days) |->
                 Day(d, FormatActivities(parsed.itinerary.days[d]), "decoded", 130, 15)],
              << >>, << >>)

\* text.split(/day\s*\d+/i).filter(day => day.trim().length > 0): the
\* stretches of text between the day headings, by the index they start at.
PieceStarts(text) ==
  {i \in 1..Len(text) : text[i].k # "daymark" /\ (i = 1 \/ text[i - 1].k = "daymark")}

PieceEnd(text, i) ==
  LET marks == {j \in i..Len(text) : text[j].k = "daymark"}
  IN  IF marks = {} THEN Len(text) ELSE (CHOOSE j \in marks : \A k \in marks : j <= k) - 1

\* parseActivitiesFromText: the sentences of more than ten characters, two
\* at most.  Every prose token ends a sentence; what follows the last one is
\* a long sentence when it holds a member.  rnd stands for the Math.random()
\* draws of the prices, Math.floor(Math.random() * 50) + 25.
ParseActivitiesFromText(text, i, rnd) ==
  LET e      == PieceEnd(text, i)
      prose  == {j \in i..e : text[j].k = "prose"}
      tail   == {j \in i..e : IsMember(text[j]) /\ \A p \in prose : p < j}
      n      == Cardinality(prose) + (IF tail = {} THEN 0 ELSE 1)
  IN  [a \in 1..(IF n < TextActivitiesMax THEN n ELSE TextActivitiesMax) |->
         [name |-> "parsed", price |-> 25 + 49 * rnd]]

\* createStructuredItineraryFromText(text, request).  rnd stands for the
\* Math.random() draws: estimatedCost is Math.floor(Math.random() * 100) + 50;
\* the default meals cost 0 + 20 + 30.
CreateStructuredItineraryFromText(text, request, rnd) ==
  LET starts == PieceStarts(text)
      n      == IF Cardinality(starts) < request.duration
                  THEN Cardinality(starts) ELSE request.duration
      nth(d) == CHOOSE i \in starts : Cardinality({j \in starts : j <= i}) = d
  IN  IF n > 0 /\ CalculateDateThrows(request) THEN Thrown
      ELSE Plan(ConfidenceFromText,
                [d \in 1..n |-> Day(d, ParseActivitiesFromText(text, nth(d), rnd), "text",
                                     50 + 99 * rnd, 50)],
                <<"from-text">>, <<"verify-details">>)

\* createFallbackItinerary(request); rnd as above.
CreateFallbackItinerary(request, rnd) ==
  IF request.duration > 0 /\ CalculateDateThrows(request) THEN Thrown
  ELSE Plan(ConfidenceFallback,
            [d \in 1..request.duration |->
               Day(d, << [name |-> "exploration", price |-> 25 + 49 * rnd] >>, "fallback",
                   50 + 99 * rnd, 50)],
            <<"fallback">>, <<"generation-failed">>)

\* parseItineraryResponse(responseText, request): try { match ? validate(
\* JSON.parse(match)) : fromText } catch { fallback }.
ParseItineraryResponse(text, request, rnd) ==
  LET m     == JsonMatch(text)
      tried == IF m.found
                 THEN LET parsed == JsonParse(text, m)
                      IN  IF parsed.ok THEN ValidateAndEnhanceItinerary(parsed, request)
                          ELSE Thrown
                 ELSE CreateStructuredItineraryFromText(text, request, rnd)
  IN  IF tried.threw THEN CreateFallbackItinerary(request, rnd) ELSE tried

\* The list fields that enhanceWithAIInsights reads from the decoded reply,
\* in the order in which it pushes them.
InsightFields ==
  <<"additionalActivities", "diningSuggestions", "culturalTips", "travelTips",
    "potentialIssues">>

\* The ways the second backend call can settle: the call rejects, the reply
\* is not JSON, or the reply is a JSON object that has all the list fields,
\* all but one of them, or none.
InsightOutcomes ==
  LET all == {InsightFields[i] : i \in 1..Len(InsightFields)}
  IN  {[t |-> "rejected", has |-> {}], [t |-> "not-json", has |-> {}]}
        \cup {[t |-> "json", has |-> all \ m] : m \in {{}, all} \cup {{f} : f \in all}}

\* enhanceWithAIInsights: the second backend call.  The lists of the reply
\* are pushed onto the recommendations and warnings of the itinerary one
\* after the other (each list is one entry here, named by its field);
\* push(...undefined) throws at the first field the reply lacks, and the catch
\* block returns the itinerary with what was pushed until then.
EnhanceWithAIInsights(plan, outcome) ==
  IF outcome.t # "json"
    THEN plan
    ELSE LET missing == {i \in 1..Len(InsightFields) : InsightFields[i] \notin outcome.has}
             pushed  == IF missing = {}
                          THEN Len(InsightFields)
                          ELSE (CHOOSE i \in missing : \A j \in missing : i <= j) - 1
         IN  [plan EXCEPT !.recommendations =
                            @ \o [i \in 1..(IF pushed > 4 THEN 4 ELSE pushed) |-> InsightFields[i]],
                          !.warnings =
                            @ \o (IF pushed = 5 THEN <<InsightFields[5]>> ELSE << >>)]

\* Math.floor(price * 0.7) for a whole price, in double precision.  0.7 is
\* the double 0.7 - 0.4 * 2^-53, so the product of a multiple of ten falls
\* short of the whole number k = 7 * price / 10 by 0.4 * price * 2^-53 and is
\* rounded to the next double below k, whose floor is k - 1, when that is more
\* than half the spacing 2^(e - 52) of the doubles below k, 2^e <= k < 2^(e + 1);
\* in every other case the floor is that of the exact product.
ReducedPrice(price) ==
  LET k == (7 * price) \div 10
      e == CHOOSE x \in 0..29 : 2^x <= k /\ k < 2^(x + 1)
  IN  IF price % 10 = 0 /\ k > 0 /\ 4 * price > 10 * 2^e THEN k - 1 ELSE k

\* optimizeForBudget(itinerary, budgetConflict): the hints are appended to
\* recommendations, every activity price becomes Math.floor(price * 0.7), and
\* totalCost and budgetBreakdown are computed from the new days.
OptimizeForBudget(plan, suggestions) ==
  LET days == [d \in 1..Len(plan.days) |->
                 [plan.days[d] EXCEPT !.activities =
                    [a \in 1..Len(@) |-> [@[a] EXCEPT !.price = ReducedPrice(@)]]]]
  IN  [plan EXCEPT !.recommendations = @ \o <<"budget-optimization-applied">> \o suggestions,
                   !.days = days,
                   !.totalCost = CalculateTotalCost(days),
                   !.budgetBreakdown = CalculateBudgetBreakdown(days)]

\* durationConflict.reasoning.includes(word): whether the reasoning that
\* analyzeEdgeCases wrote,
\*   'Very short trips require focused, highlights-only itineraries'
\* or
\*   'Long trips benefit from slower pace and deeper cultural immersion',
\* holds the word 'short' or 'long', character by character.
ReasoningIncludes(reasoning, word) ==
  LET text == CASE reasoning = "short" ->
                     << 86, 101, 114, 121, 32, 115, 104, 111, 114, 116, 32,
                        116, 114, 105, 112, 115, 32, 114, 101, 113, 117, 105,
                        114, 101, 32, 102, 111, 99, 117, 115, 101, 100, 44,
                        32, 104, 105, 103, 104, 108, 105, 103, 104, 116, 115,
                        45, 111, 110, 108, 121, 32, 105, 116, 105, 110, 101,
                        114, 97, 114, 105, 101, 115 >>
                [] reasoning = "long" ->
                     << 76, 111, 110, 103, 32, 116, 114, 105, 112, 115, 32,
                        98, 101, 110, 101, 102, 105, 116, 32, 102, 114, 111,
                        109, 32, 115, 108, 111, 119, 101, 114, 32, 112, 97,
                        99, 101, 32, 97, 110, 100, 32, 100, 101, 101, 112,
                        101, 114, 32, 99, 117, 108, 116, 117, 114, 97, 108,
                        32, 105, 109, 109, 101, 114, 115, 105, 111, 110 >>
                [] OTHER -> << >>
      w    == CASE word = "short" -> <<115, 104, 111, 114, 116>>
                [] word = "long"  -> <<108, 111, 110, 103>>
  IN  \E i \in 1..(Len(text) - Len(w) + 1) : SubSeq(text, i, i + Len(w) - 1) = w

\* adaptForDuration(itinerary, durationConflict).
AdaptForDuration(plan, reasoning) ==
  IF ReasoningIncludes(reasoning, "short")
    THEN [plan EXCEPT !.days =
            [d \in 1..Len(plan.days) |->
               [plan.days[d] EXCEPT !.activities = Slice(@, 1), !.notes = "highlights"]]]
    ELSE IF ReasoningIncludes(reasoning, "long")
      THEN [plan EXCEPT !.recommendations =
              @ \o <<"long-trip-optimization", "language-classes", "day-trips">>]
      ELSE plan

\* A climate adaptation that also drops the last activity of every day.
AdaptForClimateDroppingActivities(plan) ==
  [plan EXCEPT !.warnings = @ \o <<"climate-consideration", "indoor-alternatives-suggested">>,
               !.recommendations = @ \o <<"museum-visits", "indoor-cultural-experiences",
                                          "shopping-centers-and-galleries">>,
               !.days = [d \in 1..Len(@) |->
                           [@[d] EXCEPT !.activities = SubSeq(@, 1, Len(@) - 1)]]]

\* adaptForClimate(itinerary, climateConflict): two warnings and three
\* recommendations are appended.
AdaptForClimate(plan) ==
  [plan EXCEPT !.warnings = @ \o <<"climate-consideration", "indoor-alternatives-suggested">>,
               !.recommendations = @ \o <<"museum-visits", "indoor-cultural-experiences",
                                          "shopping-centers-and-galleries">>]

\* applyEdgeCaseHandling(itinerary, edgeCases).
ApplyEdgeCaseHandling(plan, edgeCases) ==
  LET b == IF edgeCases.budgetConflict
             THEN OptimizeForBudget(plan, edgeCases.suggestions) ELSE plan
      d == IF edgeCases.durationConflict # "none"
             THEN AdaptForDuration(b, edgeCases.durationConflict) ELSE b
  IN  IF edgeCases.climateConflict THEN AdaptForClimate(d) ELSE d

NotParsed == [threw |-> FALSE, plan |-> NoPlan]

\* No run of createAIItinerary is in progress.  fails counts the runs of the
\* request whose main backend call failed.
NoRun(request) ==
  [pc |-> "idle", req |-> request, owner |-> "none",
   edge |-> AnalyzeEdgeCases(request), text |-> << >>, mainFailed |-> FALSE,
   parse |-> NotParsed, insights |-> [t |-> "none", has |-> {}],
   out |-> NoPlan, fails |-> 0, steps |-> << >>]

\* The steps of one invocation of createAIItinerary, in the order of its
\* statements.
StepOrder ==
  <<"analyze", "prompt", "call", "parse", "enhance", "adjust", "return">>

\* createAIItinerary(request) begins: analyzeEdgeCases, then
\* generateMainItinerary builds the prompt and issues the main call.  steps
\* lists the steps the invocation has taken.
BeginRun(a, owner) ==
  [NoRun(a.req) EXCEPT !.pc = "main", !.owner = owner, !.fails = a.fails,
                       !.steps = <<"analyze", "prompt", "call">>]

EndRun(a) == [NoRun(a.req) EXCEPT !.fails = a.fails]

\* A caller invokes generateItinerary(request).
StartItinerary(c) ==
  /\ cl[c].pc = "idle"
  /\ cl[c].served = 0
  /\ ai.pc = "idle"
  /\ Upd(c, [IdleClient EXCEPT !.pc = "get_read", !.op = "getOrSet", !.prod = "ai",
                               !.key = "ai:q", !.ttl = ItineraryTTL, !.served = 1])
  /\ UNCHANGED <<now, redisUp, store, cas, ai, hist, keygen>>

\* getOrSet after a miss: fetchFunction() starts createAIItinerary.
GosFetchPlanner(c) ==
  /\ cl[c].pc = "fetch"
  /\ cl[c].prod = "ai"
  /\ ai.pc = "idle"
  /\ ai' = BeginRun(ai, c)
  /\ Upd(c, [cl[c] EXCEPT !.pc = "fetch_wait"])
  /\ UNCHANGED <<now, redisUp, store, cas, hist, keygen>>

\* getOrSet, catch block: fetchFunction() starts createAIItinerary again.
GosRetryPlanner(c) ==
  /\ cl[c].pc = "retry"
  /\ cl[c].prod = "ai"
  /\ ai.pc = "idle"
  /\ ai' = BeginRun(ai, c)
  /\ Upd(c, [cl[c] EXCEPT !.pc = "retry_wait"])
  /\ UNCHANGED <<now, redisUp, store, cas, hist, keygen>>

\* generateMainItinerary: the call of the backend rejects (network, quota,
\* authentication); createAIItinerary logs and rethrows.
MainCallFails ==
  /\ ai.pc = "main"
  /\ ai' = [ai EXCEPT !.pc = "threw", !.mainFailed = TRUE, !.fails = @ + 1]
  /\ UNCHANGED <<now, redisUp, store, cl, cas, hist, keygen>>

\* generateMainItinerary: the backend answers and the answer is parsed; an
\* exception of the parser leaves createAIItinerary through its catch block.
MainCallReplies ==
  /\ ai.pc = "main"
  /\ \E text \in Texts, rnd \in (IF ai.owner = "direct" THEN {0, 1} ELSE {0}) :
       LET r == ParseItineraryResponse(text, ai.req, rnd)
       IN  ai' = [ai EXCEPT !.pc = IF r.threw THEN "threw" ELSE "parsed",
                            !.text = text, !.parse = r,
                            !.steps = @ \o (IF r.threw THEN <<"parse">>
                                                       ELSE <<"parse", "enhance">>)]
  /\ UNCHANGED <<now, redisUp, store, cl, cas, hist, keygen>>

\* An insights call that is issued while the main call is still in flight.
InsightsCallBeforeParse ==
  /\ ai.pc \in {"main", "parsed"}
  /\ \E outcome \in InsightOutcomes :
       ai' = [ai EXCEPT !.pc = "done", !.text = << >>, !.insights = outcome,
                        !.steps = (IF ai.pc = "main" THEN @ \o <<"enhance">> ELSE @)
                                    \o <<"adjust", "return">>,
                        !.out = IF ai.pc = "main"
                                  THEN NoPlan
                                  ELSE ApplyEdgeCaseHandling(
                                         EnhanceWithAIInsights(ai.parse.plan, outcome),
                                         ai.edge)]
  /\ UNCHANGED <<now, redisUp, store, cl, cas, hist, keygen>>

\* The insights call, issued by enhanceWithAIInsights once the main reply was
\* parsed, settles; then applyEdgeCaseHandling and the return object of
\* createAIItinerary.
InsightsCall ==
  /\ ai.pc = "parsed"
  /\ \E outcome \in InsightOutcomes :
       ai' = [ai EXCEPT !.pc = "done", !.text = << >>, !.insights = outcome,
                        !.steps = @ \o <<"adjust", "return">>,
                        !.out = ApplyEdgeCaseHandling(
                                  EnhanceWithAIInsights(ai.parse.plan, outcome), ai.edge)]
  /\ UNCHANGED <<now, redisUp, store, cl, cas, hist, keygen>>

\* The rejection of createAIItinerary reaches getOrSet.
RunThrows(c) ==
  /\ ai.pc = "threw"
  /\ ai.owner = c
  /\ Upd(c, IF cl[c].pc = "fetch_wait"
              THEN AfterFetch(cl[c], [t |-> "throw"])
              ELSE AfterRetry(cl[c], [t |-> "throw"]))
  /\ ai' = EndRun(ai)
  /\ UNCHANGED <<now, redisUp, store, cas, hist, keygen>>

\* The value of createAIItinerary reaches getOrSet.
RunReturns(c) ==
  /\ ai.pc = "done"
  /\ ai.owner = c
  /\ Upd(c, IF cl[c].pc = "fetch_wait"
              THEN AfterFetch(cl[c], [t |-> "value", v |-> ai.out])
              ELSE AfterRetry(cl[c], [t |-> "value", v |-> ai.out]))
  /\ ai' = EndRun(ai)
  /\ UNCHANGED <<now, redisUp, store, cas, hist, keygen>>

InitPlanner ==
  /\ now = 0
  /\ redisUp = TRUE
  /\ store = [k \in Keys |-> NoEntry]
  /\ cl = [c \in Clients |-> IdleClient]
  /\ hist = [c \in Clients |-> NoCall]
  /\ keygen = NoKeyGen
  /\ cas = NoCascade
  /\ \E request \in Requests : ai = NoRun(request)

NextPlanner ==
  \/ RedisFail
  \/ RedisRecover
  \/ MainCallFails
  \/ MainCallReplies
  \/ InsightsCall
  \/ \E c \in Planners :
       \/ StartItinerary(c)
       \/ GetRead(c)
       \/ GosFetchPlanner(c)
       \/ GosRetryPlanner(c)
       \/ RunThrows(c)
       \/ RunReturns(c)
       \/ SetBuild(c)
       \/ SetWrite(c)
       \/ Return(c)

SpecPlanner == InitPlanner /\ [][NextPlanner]_vars

(***************************************************************************)
(* createAIItinerary called on its own, for the requests of EdgeRequests:  *)
(* analyzeEdgeCases, the reply of the backend and its parsing, the         *)
(* insights call and applyEdgeCaseHandling.                                *)
(***************************************************************************)
InitAdjust ==
  /\ now = 0
  /\ redisUp = TRUE
  /\ store = [k \in Keys |-> NoEntry]
  /\ cl = [c \in Clients |-> IdleClient]
  /\ hist = [c \in Clients |-> NoCall]
  /\ keygen = NoKeyGen
  /\ cas = NoCascade
  /\ \E request \in EdgeRequests : ai = BeginRun(NoRun(request), "direct")

NextAdjust ==
  \/ MainCallReplies
  \/ InsightsCall

SpecAdjust == InitAdjust /\ [][NextAdjust]_vars

(***************************************************************************)
(* CacheService.generateKey(prefix, params).  Strings are sequences of     *)
(* UTF-16 code units.                                                      *)
(***************************************************************************)
Colon == 58      \* ':'
Pipe  == 124     \* '|'

\* The property names of the parameter objects: "9", "10", "ab", "b".
ParamNames == { <<57>>, <<49, 48>>, <<97, 98>>, <<98>> }

\* A parameter object: its properties in the order they were inserted; the
\* values are the string "x" and the number 1.
ParamMaps ==
  LET ParamValues == { [t |-> "str", s |-> <<120>>], [t |-> "num", s |-> <<49>>] }
  IN  UNION { {m \in [1..n -> [name : ParamNames, value : ParamValues]] :
                 \A i, j \in 1..n : i # j => m[i].name # m[j].name} :
              n \in 0..Cardinality(ParamNames) }

RECURSIVE StringLess(_, _)
\* a < b by UTF-16 code units, the order of Array.prototype.sort() without a
\* comparator.
StringLess(a, b) ==
  IF b = << >> THEN FALSE
  ELSE IF a = << >> THEN TRUE
  ELSE IF Head(a) # Head(b) THEN Head(a) < Head(b)
  ELSE StringLess(Tail(a), Tail(b))

\* A sort that leaves the array as it is.
SortStringsKeepingOrder(names) == names

\* Array.prototype.sort() on an array of distinct strings: the same strings in
\* ascending order.
SortStrings(names) ==
  CHOOSE q \in [1..Len(names) -> {names[i] : i \in 1..Len(names)}] :
    \A i, j \in 1..Len(names) : i < j => StringLess(q[i], q[j])

\* Object.keys(params): the names that are array indices (decimal digits
\* '0'..'9' without a leading zero) in ascending numeric order, then the other
\* names in insertion order.
OwnKeys(m) ==
  LET IsArrayIndex(name) ==
        /\ \A i \in 1..Len(name) : name[i] >= 48 /\ name[i] <= 57
        /\ (Len(name) > 1 => name[1] # 48)
      IndexLess(a, b) ==
        Len(a) < Len(b) \/ (Len(a) = Len(b) /\ StringLess(a, b))
      names   == [i \in 1..Len(m) |-> m[i].name]
      indices == {names[i] : i \in {k \in 1..Len(m) : IsArrayIndex(names[k])}}
  IN  (CHOOSE q \in [1..Cardinality(indices) -> indices] :
         \A i, j \in 1..Cardinality(indices) : i < j => IndexLess(q[i], q[j]))
      \o SelectSeq(names, LAMBDA n : ~IsArrayIndex(n))

RECURSIVE JoinWithPipe(_)
\* .join('|')
JoinWithPipe(parts) ==
  IF parts = << >> THEN << >>
  ELSE IF Len(parts) = 1 THEN parts[1]
  ELSE parts[1] \o <<Pipe>> \o JoinWithPipe(Tail(parts))

\* generateKey(prefix, params): the sorted names, each as
\* `${key}:${params[key]}`, joined and put behind `${prefix}:`.  The template
\* literal converts the value to a string: a string is itself, a number its
\* decimal digits, an object "[object Object]".
GenerateKey(prefix, m) ==
  LET names == SortStrings(OwnKeys(m))
      AsString(v) == IF v.t = "obj"
                       THEN <<91, 111, 98, 106, 101, 99, 116, 32,
                              79, 98, 106, 101, 99, 116, 93>>
                       ELSE v.s
      Value(name) == AsString(m[CHOOSE i \in 1..Len(m) : m[i].name = name].value)
  IN  prefix \o <<Colon>> \o
        JoinWithPipe([i \in 1..Len(names) |-> names[i] \o <<Colon>> \o Value(names[i])])

\* generateKey is evaluated, under the prefix "h" ('hotels') or "f"
\* ('flights'), for two parameter objects that hold the same properties,
\* inserted in any two orders.
GenerateKeys ==
  /\ keygen.pc = "idle"
  /\ \E prefix \in { <<104>>, <<102>> }, m \in ParamMaps :
       \E q \in {r \in [1..Len(m) -> {m[i] : i \in 1..Len(m)}] :
                   \A i, j \in 1..Len(m) : i # j => r[i] # r[j]} :
         keygen' = [pc |-> "done", prefix |-> prefix, first |-> m, second |-> q,
                    key1 |-> GenerateKey(prefix, m), key2 |-> GenerateKey(prefix, q)]
  /\ UNCHANGED <<now, redisUp, store, cl, cas, ai, hist>>

\* generateItinerary evaluates generateKey('ai-itinerary', request), prefix
\* "ai" here, for two requests that hold the same properties in the same
\* order and differ in the value of one of them.  The values are the string
\* "x", the number 1, and two objects, {name: "P"} and {name: "T"}, as the
\* destination of a request is.
GenerateKeysOfTwoRequests ==
  /\ keygen.pc = "idle"
  /\ LET RequestValues == { [t |-> "str", s |-> <<120>>], [t |-> "num", s |-> <<49>>],
                            [t |-> "obj", s |-> <<80>>], [t |-> "obj", s |-> <<84>>] }
     IN  \E m \in ParamMaps :
           \E i \in 1..Len(m), v \in RequestValues, w \in RequestValues :
             /\ v # w
             /\ LET first  == [m EXCEPT ![i].value = v]
                    second == [m EXCEPT ![i].value = w]
                IN  keygen' = [pc |-> "done", prefix |-> <<97, 105>>,
                               first |-> first, second |-> second,
                               key1 |-> GenerateKey(<<97, 105>>, first),
                               key2 |-> GenerateKey(<<97, 105>>, second)]
  /\ UNCHANGED <<now, redisUp, store, cl, cas, ai, hist>>

\* The caller has taken the keys.
KeysTaken ==
  /\ keygen.pc = "done"
  /\ keygen' = NoKeyGen
  /\ UNCHANGED <<now, redisUp, store, cl, cas, ai, hist>>

NextKey ==
  \/ GenerateKeys
  \/ GenerateKeysOfTwoRequests
  \/ KeysTaken

SpecKey == InitCache /\ [][NextKey]_vars

(***************************************************************************)
(* Properties                                                              *)
(***************************************************************************)

\* C1: getOrSet invokes the producer zero times when the key holds an
\* unexpired entry (and then returns the cached data with cached = true), and
\* exactly once when the key is absent or expired, whatever the producer does
\* (returns a value, returns null, throws).  "Unexpired" is taken as get
\* decides it, so that the count of producer calls alone is at stake.
C1_ProducerCalledAtMostOnce ==
  \A c \in Clients :
    (cl[c].pc = "done" /\ cl[c].op = "getOrSet" /\ cl[c].prod = "plain") =>
      LET r == cl[c]
          held == r.snap.t # "none" /\ ~(r.snapAge > r.snap.ttl)
      IN  IF held
            THEN r.calls = 0 /\ ~r.ret.null /\ r.ret.cached /\ r.ret.data = r.snap.data
            ELSE r.calls = 1

\* C2: get never returns an expired entry: the entry read is returned only
\* while now - timestamp < ttl; at an age of exactly ttl, and beyond, get
\* returns null.
C2_GetNeverReturnsExpired ==
  \A c \in Clients :
    (cl[c].pc = "done" /\ cl[c].op = "get" /\ cl[c].snap.t # "none") =>
      LET r == cl[c]
      IN  IF r.snapAge < r.snap.ttl
            THEN r.retVal = r.snap.data
            ELSE r.retVal = FalsyVal

\* C3: in the hotel, flight and weather cascades fallbackUsed is true iff
\* every provider that was called failed or returned zero items; then the
\* returned item list is non-empty, every item has source "fallback" and
\* sources is exactly <<"fallback">>; otherwise no returned item has source
\* "fallback".  The items of a weather result are its forecast days.
C3_FallbackIffNoItems ==
  cas.pc = "done" =>
    LET r == cas.ret
        called == {p \in 1..NumProviders(cas.kind) : cas.out[p] # "notcalled"}
        noItems == \A p \in called : cas.out[p] \in {"failed", "empty"}
        count == IF cas.kind = "weather" THEN r.items[1].forecast ELSE Len(r.items)
    IN  /\ r.fallbackUsed <=> noItems
        /\ r.fallbackUsed =>
             /\ count > 0
             /\ \A j \in 1..Len(r.items) : r.items[j].source = "fallback"
             /\ r.sources = <<"fallback">>
        /\ ~r.fallbackUsed =>
             \A j \in 1..Len(r.items) : r.items[j].source # "fallback"

\* C4: a provider failure is caught on its own and does not abort the
\* cascade: a provider is left out only when the sufficiency check on the
\* results collected before it says so, and errors holds, in call order,
\* exactly one entry per provider whose call failed and none for a provider
\* that succeeded, returned an empty list or was not called.
C4_FailuresRecordedNotFatal ==
  cas.pc \in {"run", "done"} =>
    LET n == NumProviders(cas.kind)
        failed == {p \in 1..n : cas.out[p] = "failed"}
        errs == cas.errors
        before(q) == IF q = 1 THEN 0
                     ELSE IF q = 2 THEN cas.got[1]
                     ELSE cas.got[1] + cas.got[2]
    IN  /\ Len(errs) = Cardinality(failed)
        /\ \A p \in failed :
             Cardinality({j \in 1..Len(errs) : errs[j].provider = Providers(cas.kind)[p]}) = 1
        /\ \A j \in 1..Len(errs) :
             \E p \in failed : errs[j].provider = Providers(cas.kind)[p]
        /\ \A i, j \in 1..Len(errs) :
             i < j => \E p, q \in failed :
                        /\ p < q
                        /\ errs[i].provider = Providers(cas.kind)[p]
                        /\ errs[j].provider = Providers(cas.kind)[q]
        /\ cas.pc = "done" =>
             /\ cas.ret.errors = [defined |-> failed # {}, list |-> errs]
             /\ \A q \in 1..n :
                  cas.out[q] = "notcalled" <=>
                    ~ShouldCall(cas.kind, q, [j \in 1..before(q) |-> j])

\* A run in which the first provider failed and a later one delivered items.
C4_Witness ==
  /\ cas.pc = "done"
  /\ cas.kind = "hotels"
  /\ cas.out = <<"failed", "items", "failed">>
  /\ Len(cas.ret.errors.list) = 2
  /\ ~cas.ret.fallbackUsed

\* C5: when the main call of the generation backend fails,
\* createAIItinerary does not throw and generateItinerary does not return
\* empty: the result is the templated plan with confidence 0.5, as many days
\* as the requested duration and one exploration activity per day.
C5_BackendFailureGivesTemplate ==
  /\ (ai.pc \in {"threw", "done"} /\ ai.mainFailed) =>
       /\ ai.pc = "done"
       /\ ai.out.confidence = ConfidenceFallback
       /\ Len(ai.out.days) = ai.req.duration
       /\ \A d \in 1..Len(ai.out.days) :
            /\ Len(ai.out.days[d].activities) = 1
            /\ ai.out.days[d].activities[1].name = "exploration"
  /\ \A c \in Clients :
       (cl[c].pc = "done" /\ cl[c].prod = "ai" /\ ai.fails > 0) => ~cl[c].ret.null

\* C6: for a reply that is not JSON (prose without braces, or braces whose
\* content does not decode) parseItineraryResponse does not throw and returns
\* the heuristic plan of confidence 0.7.  Stated for requests whose departure
\* date is a valid date.
C6_NonJsonGivesHeuristicPlan ==
  (ai.pc \in {"parsed", "threw"} /\ ~ai.mainFailed /\ ai.req.dateValid) =>
    LET m == JsonMatch(ai.text)
    IN  (~m.found \/ ~JsonParse(ai.text, m).ok) =>
          /\ ai.pc = "parsed"
          /\ ai.parse.plan.confidence = ConfidenceFromText

\* C7: for a reply whose JSON decodes but fails shape validation (itinerary
\* missing, not an array, or an empty array) the result is the heuristic plan
\* of confidence 0.7; confidence 0.9 is given only when itinerary is a
\* non-empty array.  Stated for requests whose departure date is valid.
C7_InvalidShapeGivesHeuristicPlan ==
  (ai.pc \in {"parsed", "threw"} /\ ~ai.mainFailed /\ ai.req.dateValid) =>
    LET m == JsonMatch(ai.text)
        decoded == m.found /\ JsonParse(ai.text, m).ok
        it == JsonParse(ai.text, m).itinerary
        nonEmptyArray == decoded /\ it.kind = "array" /\ Len(it.days) > 0
    IN  /\ (decoded /\ ~nonEmptyArray) =>
             /\ ai.pc = "parsed"
             /\ ai.parse.plan.confidence = ConfidenceFromText
        /\ (ai.pc = "parsed" /\ ai.parse.plan.confidence = ConfidenceValidated)
             => nonEmptyArray

\* C8: for a reply that is well-formed JSON of the schema the prompt asks
\* for, with a non-empty itinerary array, the result has confidence 0.9 and
\* one enhanced day per decoded day.
C8_SchemaJsonGivesValidatedPlan ==
  (ai.pc \in {"parsed", "threw"} /\ ~ai.mainFailed /\ ai.req.dateValid) =>
    LET m == JsonMatch(ai.text)
        decoded == m.found /\ JsonParse(ai.text, m).ok
        it == JsonParse(ai.text, m).itinerary
    IN  (/\ decoded
         /\ it.kind = "array"
         /\ Len(it.days) > 0
         /\ \A d \in 1..Len(it.days) : it.days[d] = "schema") =>
          /\ ai.pc = "parsed"
          /\ ai.parse.plan.confidence = ConfidenceValidated
          /\ Len(ai.parse.plan.days) = Len(it.days)

C10_SequentialPriorityOrder ==
  cas.pc \in {"run", "done"} =>
    LET st == cas.started
        names == [j \in 1..Len(st) |-> Providers(cas.kind)[st[j]]]
        order == CASE cas.kind = "hotels"  -> <<"Booking.com", "Expedia", "Airbnb">>
                   [] cas.kind = "flights" -> <<"Amadeus", "Skyscanner", "Google Flights">>
                   [] cas.kind = "weather" -> <<"OpenWeather", "WeatherAPI">>
        pos(x) == CHOOSE i \in 1..Len(order) : order[i] = x
    IN  /\ Cardinality(cas.inflight) <= 1
        /\ \A i, j \in 1..Len(st) : i < j => pos(names[i]) < pos(names[j])
        /\ \A j \in 1..Len(st) :
             st[j] \in cas.inflight =>
               /\ j = Len(st)
               /\ \A i \in 1..(j - 1) : cas.out[st[i]] # "notcalled"
        /\ Len(st) > 0 => st[1] = 1

\* The third provider's call is outstanding after the first two were called
\* and settled in turn.
C10_Witness ==
  /\ cas.pc = "run"
  /\ cas.kind = "flights"
  /\ cas.started = <<1, 2, 3>>
  /\ cas.inflight = {3}
  /\ cas.out = <<"failed", "empty", "notcalled">>

\* The items collected from the providers of higher priority than q.
CollectedBefore(c, q) ==
  IF q = 1 THEN 0
  ELSE IF q = 2 THEN c.got[1]
  ELSE c.got[1] + c.got[2]

\* C11: a hotel or flight run has one sufficiency threshold T: a provider
\* below the first is called iff the items collected from the providers of
\* higher priority number fewer than T, and is left out once they reach T.
C11_OneThresholdPerKind ==
  (cas.pc = "done" /\ cas.kind \in {"hotels", "flights"}) =>
    \E T \in 0..(HotelsExpediaBelow + FlightsSkyscannerBelow) :
      \A q \in 2..NumProviders(cas.kind) :
        cas.out[q] # "notcalled" <=> CollectedBefore(cas, q) < T

\* C12: when Redis is unreachable or the write of the fresh value fails
\* during getOrSet, the call still returns the freshly produced value with
\* cached = false, never null, and the result's source tag differs from the
\* tag a result carries when the value was stored.
C12_WriteFailureTaggedBypass ==
  \A c \in Clients :
    LET r == cl[c]
    IN  (r.pc = "done" /\ r.op = "getOrSet" /\ Truthy(r.val) /\ ~r.retOk) =>
          /\ ~r.ret.null
          /\ r.ret.data = r.val
          /\ ~r.ret.cached
          /\ r.ret.source # AfterSet(r, TRUE).ret.source

\* C19: the list a hotel run returns never holds two hotels of the same name
\* and location, and the list a flight run returns never holds two flights
\* of the same airline, flight number and departure time.
C19_NoDuplicateIdentities ==
  (cas.pc = "done" /\ cas.kind \in {"hotels", "flights"}) =>
    \A a, b \in 1..Len(cas.ret.items) :
      a # b => cas.ret.items[a].ident # cas.ret.items[b].ident

\* Two providers delivered the same hotel and the returned list holds it
\* once, as the provider of higher priority delivered it.
C19_Witness ==
  /\ cas.pc = "done"
  /\ cas.kind = "hotels"
  /\ \E a, b \in 1..Len(cas.results) :
       /\ a < b
       /\ cas.results[a].ident = cas.results[b].ident
       /\ cas.results[a].source # cas.results[b].source
       /\ Cardinality({j \in 1..Len(cas.ret.items) :
                         cas.ret.items[j].ident = cas.results[a].ident}) = 1
       /\ \E j \in 1..Len(cas.ret.items) : cas.ret.items[j] = cas.results[a]

\* The records provider p's call resolved with in run c.
Delivered(c, p) ==
  IF c.out[p] = "items" THEN [j \in 1..c.got[p] |-> UpstreamItem(c.kind, p, j)] ELSE << >>

FollowsWithinTTL(c, h) ==
  /\ cl[c].pc = "done"
  /\ cl[c].key = h.key
  /\ cl[c].snapUp
  /\ now - h.since < h.ttl * MsPerSec

\* C13: when getOrSet returned non-null data with cached = false while Redis
\* was answering, the caller's next call on the key, made before the TTL has
\* elapsed, sees that data: a get returns it, a getOrSet returns it with
\* cached = true.
C13_FreshResultVisibleToNextCall ==
  \A c \in Clients :
    LET r == cl[c]
        h == hist[c]
    IN  (/\ h.op = "getOrSet"
         /\ ~h.ret.null /\ Truthy(h.ret.data) /\ ~h.ret.cached
         /\ h.up /\ (h.ret.source = "api" => h.retOk)
         /\ r.op \in {"get", "getOrSet"}
         /\ FollowsWithinTTL(c, h)) =>
          IF r.op = "get"
            THEN r.retVal = h.ret.data
            ELSE ~r.ret.null /\ r.ret.cached /\ r.ret.data = h.ret.data

\* C16 as stated: a get that follows set(key, v, ttl) on the key before the
\* TTL has elapsed returns exactly v.
C16_SetThenGetReturnsExactly ==
  \A c \in Clients :
    LET r == cl[c]
        h == hist[c]
    IN  (/\ h.op = "set"
         /\ r.op = "get" /\ r.pc = "done" /\ r.key = h.key
         /\ now - h.since < h.ttl * MsPerSec) =>
          r.retVal = h.val

\* C16, amended: when set(key, v, ttl) returned true, a get on the key that
\* Redis answers before the TTL has elapsed returns v as JSON carries it (v
\* itself unless v holds what JSON cannot write), whatever the key held
\* before; the entry read is the one this set built, so that its expiry counts
\* from this set.
C16_SetThenGetReturnsStored ==
  \A c \in Clients :
    LET r == cl[c]
        h == hist[c]
    IN  (h.op = "set" /\ h.retOk /\ r.op = "get" /\ FollowsWithinTTL(c, h)) =>
          /\ r.retVal = JsonStringify(h.val)
          /\ h.val.t = "val" /\ h.val.v # "NaN" => r.retVal = h.val
          /\ r.snap.t = "entry"
          /\ r.snap.timestamp = h.since
          /\ r.snap.ttl = h.ttl * MsPerSec

\* set(k1, v1), later set(k1, v2) over the entry of the first, then a get
\* after the TTL of the first set has elapsed and before that of the second:
\* it returns v2.
C16_Witness ==
  LET r == cl["c1"]
      h == hist["c1"]
  IN  /\ h.op = "set" /\ h.retOk /\ r.op = "get" /\ FollowsWithinTTL("c1", h)
      /\ h.over.t = "entry"
      /\ h.over.data # h.val
      /\ h.over.timestamp < h.since
      /\ now - h.over.timestamp > h.over.ttl
      /\ Truthy(h.val)
      /\ r.retVal = h.val

\* C14 as stated: when searchHotels, searchFlights or getWeatherForecast is
\* called again with the same parameters within the TTL window of a call that
\* ran the providers, the two calls run one round of provider calls in total:
\* the second invokes no provider, is served from the cache with cached =
\* true, and returns the item list the first returned.
C14_SecondSearchServedFromCache ==
  \A c \in Searchers :
    LET r == cl[c]
        h == hist[c]
    IN  (/\ h.op = "getOrSet" /\ h.calls = 1
         /\ r.pc = "done" /\ r.prod \in Kinds /\ r.key = h.key
         /\ now - h.since < h.ttl * MsPerSec) =>
          /\ r.calls = 0
          /\ ~r.ret.null
          /\ r.ret.cached
          /\ r.ret.data.items = h.ret.data.items

\* C14, amended: the same when the first call's write succeeded and Redis
\* answers the second call, with the returned item list being the first
\* call's as JSON carries it: identical unless an item holds a NaN, which
\* comes back as null.
C14_SecondSearchServedFromWrittenEntry ==
  \A c \in Searchers :
    LET r == cl[c]
        h == hist[c]
    IN  (/\ h.op = "getOrSet" /\ h.calls = 1 /\ h.retOk
         /\ r.prod \in Kinds
         /\ FollowsWithinTTL(c, h)) =>
          /\ r.calls = 0
          /\ cas.pc = "idle"
          /\ ~r.ret.null
          /\ r.ret.cached
          /\ r.ret.source = "cache"
          /\ r.ret.data = JsonStringify(h.ret.data)
          /\ (\A j \in 1..Len(h.ret.data.items) :
                h.ret.data.kind = "weather" \/ h.ret.data.items[j].rating # "NaN")
               => r.ret.data.items = h.ret.data.items

\* A second hotel search, made later than the first and within its TTL
\* window, that returned from the cache what the providers had delivered to
\* the first.
C14_Witness ==
  LET r == cl["c1"]
      h == hist["c1"]
  IN  /\ h.op = "getOrSet" /\ h.calls = 1 /\ h.retOk
      /\ r.prod = "hotels"
      /\ FollowsWithinTTL("c1", h)
      /\ now > h.since
      /\ ~h.ret.data.fallbackUsed
      /\ r.ret.cached
      /\ r.ret.data.items = h.ret.data.items
      /\ Len(r.ret.data.items) > 0

\* Client c's write has been executed: the step is the SETEX of its set.
WriteExecuted(c) ==
  cl[c].pc = "set_write" /\ cl'[c].pc = "done" /\ cl'[c].retOk

\* C15: two getOrSet calls on one cold key, interleaved in any way.  A call
\* that takes the miss path and whose producer returns a value returns that
\* value with cached = false, whatever the other call does; every executed
\* write leaves the key holding the writer's value, and nothing but a write
\* or the removal of the entry changes the key, so that the key holds the
\* value of the write executed last: the call that wrote over the other's
\* entry is the one whose value the key holds, and the key never holds a
\* value that neither call produced.
C15_LastWriteWins ==
  /\ [](/\ \A c \in Clients :
            (cl[c].pc = "done" /\ cl[c].op = "getOrSet" /\ Truthy(cl[c].val)) =>
              /\ ~cl[c].ret.null
              /\ cl[c].ret.data = cl[c].val
              /\ ~cl[c].ret.cached
              /\ (cl[c].retOk /\ cl[c].over.t = "entry") =>
                   \/ store[cl[c].key] = NoEntry
                   \/ store[cl[c].key].data = JsonStringify(cl[c].val)
        /\ \A k \in TripKeys :
             store[k] # NoEntry =>
               \E c \in Clients :
                 /\ cl[c].pc = "done" /\ cl[c].retOk /\ cl[c].key = k
                 /\ store[k].data = JsonStringify(cl[c].val))
  /\ [][/\ \A c \in Clients :
            WriteExecuted(c) => store'[cl[c].key].data = JsonStringify(cl[c].val)
        /\ \A k \in Keys :
             store'[k] # store[k] =>
               \/ store'[k] = NoEntry
               \/ \E c \in Clients : WriteExecuted(c) /\ cl[c].key = k]_vars

\* Both calls missed, both producers ran, both calls returned their own value
\* with cached = false, both wrote, and the key holds the value of c2, which
\* wrote over the entry of c1.
C15_Witness ==
  /\ \A c \in Clients :
       /\ cl[c].pc = "done" /\ cl[c].op = "getOrSet"
       /\ cl[c].snap = NoEntry /\ cl[c].snapUp
       /\ cl[c].calls = 1
       /\ cl[c].retOk
       /\ ~cl[c].ret.cached
       /\ cl[c].ret.data = cl[c].val
  /\ cl["c1"].val # cl["c2"].val
  /\ cl["c1"].over = NoEntry
  /\ cl["c2"].over.t = "entry"
  /\ cl["c2"].over.data = JsonStringify(cl["c1"].val)
  /\ store["k1"].data = JsonStringify(cl["c2"].val)

\* C17: clearExpired removes exactly the entries get would treat as expired:
\* when it has completed, no stored entry satisfies isExpired, and every
\* entry that did not satisfy it is still stored.
C17_ClearExpiredRemovesExpired ==
  [][\A c \in Clients :
       (cl[c].pc = "clear_connect" /\ cl'[c].pc = "done" /\ cl'[c].retOk) =>
         /\ \A k \in Keys : store'[k] # NoEntry => ~IsExpired(store'[k], now')
         /\ \A k \in Keys :
              (store[k] # NoEntry /\ ~IsExpired(store[k], now)) => store'[k] = store[k]]_vars

\* C18: generateKey is deterministic and does not depend on the order in
\* which the properties of params were inserted: two parameter objects that
\* hold the same name/value pairs give the same key under the same prefix.
C18_KeyIndependentOfFieldOrder ==
  (keygen.pc = "done"
     /\ {keygen.first[i] : i \in 1..Len(keygen.first)}
          = {keygen.second[i] : i \in 1..Len(keygen.second)})
    => keygen.key1 = keygen.key2

\* Two objects with the four properties inserted in different orders, and in
\* orders other than the sorted one, got the same key.
C18_Witness ==
  /\ keygen.pc = "done"
  /\ Len(keygen.first) = 4
  /\ keygen.first # keygen.second
  /\ keygen.first[1].name = <<98>>
  /\ keygen.second[1].name = <<57>>
  /\ keygen.key1 = keygen.key2

\* C21: the list a hotel or flight cascade returns is in non-decreasing price
\* order, holds at most 25 (20) records, which are the cheapest of the
\* de-duplicated combined list (no record left out costs less than one that
\* is returned), and totalFound is the number of de-duplicated records, so
\* at least the length of the list.
C21_SortedCheapestTopN ==
  (cas.pc = "done" /\ cas.kind # "weather") =>
    LET items == cas.ret.items
        all   == RemoveDuplicates(cas.results, {})
        AtMost(x, y) == x.priceIs = "num" /\ y.priceIs = "num" /\ x.price <= y.price
    IN  /\ \A j \in 1..(Len(items) - 1) : AtMost(items[j], items[j + 1])
        /\ Len(items) <= TopN(cas.kind)
        /\ cas.ret.totalFound = Len(all)
        /\ cas.ret.totalFound >= Len(items)
        /\ \A j \in 1..Len(items) : \E k \in 1..Len(all) : all[k] = items[j]
        /\ \A k \in 1..Len(all) :
             (\A j \in 1..Len(items) : items[j] # all[k]) =>
               \A j \in 1..Len(items) : AtMost(items[j], all[k])

\* C22: analyzeEdgeCases detects a budget conflict exactly when the estimate
\* 0.8 * budget + 50 * duration + 100 * travelers is more than 1.2 * budget,
\* that is when 50 * duration + 100 * travelers is more than 0.4 * budget;
\* it attaches the four fixed hints when it does and none when it does not;
\* the request {budget: 500, duration: 7, travelers: 2} is flagged.
C22_BudgetConflictIffOverBuffer ==
  ai.pc # "idle" =>
    LET r == ai.req
    IN  /\ ai.edge.budgetConflict <=> 10 * (50 * r.duration + 100 * r.travelers) > 4 * r.budget
        /\ ai.edge.suggestions =
             IF ai.edge.budgetConflict
               THEN <<"off-peak-season", "budget-accommodation",
                      "fewer-activities", "cheaper-destination">>
               ELSE << >>
        /\ (r.budget = 500 /\ r.duration = 7 /\ r.travelers = 2) => ai.edge.budgetConflict

\* The request {budget: 500, duration: 7, travelers: 2} was analyzed and
\* flagged, and its plan was returned.
C22_Witness ==
  /\ ai.pc = "done"
  /\ ai.req.budget = 500 /\ ai.req.duration = 7 /\ ai.req.travelers = 2
  /\ ai.edge.budgetConflict
  /\ Len(ai.edge.suggestions) = 4

\* C23: for a request whose budget is at least 1.2 times the cost estimate,
\* whose destination has the requested climate and whose duration lies in
\* 3..21, analyzeEdgeCases detects none of the three conflicts; and each flag
\* depends on its own condition only: the duration flag on the duration, the
\* climate flag on the two climates.
C23_NoConflictForFittingRequest ==
  ai.pc # "idle" =>
    LET r == ai.req
    IN  /\ (/\ 100 * r.budget >= 12 * (8 * r.budget + 500 * r.duration + 1000 * r.travelers)
            /\ r.destClimate = r.climate
            /\ r.duration >= 3 /\ r.duration <= 21) =>
             /\ ~ai.edge.budgetConflict
             /\ ai.edge.durationConflict = "none"
             /\ ~ai.edge.climateConflict
        /\ (ai.edge.durationConflict # "none") <=> (r.duration < 3 \/ r.duration > 21)
        /\ ai.edge.climateConflict <=> (r.climate # "any" /\ r.destClimate # r.climate)

\* A request of 21 days to a tropical destination, tropical climate asked
\* for, with a budget of exactly 1.2 times the estimate, went through the
\* analysis without a flag, and its plan was returned.
C23_Witness ==
  /\ ai.pc = "done"
  /\ ai.req.duration = 21
  /\ ai.req.budget = 37500
  /\ ai.req.climate = "tropical"
  /\ ~ai.edge.budgetConflict
  /\ ai.edge.durationConflict = "none"
  /\ ~ai.edge.climateConflict

\* C24: when a budget conflict was detected and the parsed plan has a
\* positive activity-cost component, the totalCost of the plan that
\* applyEdgeCaseHandling returns is strictly less than the totalCost of the
\* plan before the adjustment.
C24_BudgetAdjustmentLowersTotalCost ==
  (/\ ai.pc = "done"
   /\ ai.edge.budgetConflict
   /\ ai.parse.plan.budgetBreakdown.activities > 0) =>
    ai.out.totalCost < ai.parse.plan.totalCost

\* C25: when a budget conflict was detected, every activity of every day of
\* the returned plan costs floor(0.7 * p), p its price in the parsed plan; no
\* day is added or removed, and no activity unless the short-trip adaptation
\* ran as well; the line 'Budget optimization applied:' and the hints follow
\* the recommendations the plan had.  When no budget conflict was detected
\* every activity keeps its price.
C25_BudgetAdjustmentScalesPrices ==
  ai.pc = "done" =>
    LET before == ai.parse.plan
        after  == ai.out
        hints  == <<"budget-optimization-applied">> \o ai.edge.suggestions
    IN  /\ Len(after.days) = Len(before.days)
        /\ \A d \in 1..Len(after.days) :
             /\ ai.edge.durationConflict = "none" =>
                  Len(after.days[d].activities) = Len(before.days[d].activities)
             /\ \A a \in 1..Len(after.days[d].activities) :
                  after.days[d].activities[a].price =
                    IF ai.edge.budgetConflict
                      THEN (7 * before.days[d].activities[a].price) \div 10
                      ELSE before.days[d].activities[a].price
        /\ ai.edge.budgetConflict =>
             \E i \in (Len(before.recommendations) + 1)..Len(after.recommendations) :
               SubSeq(after.recommendations, i, i + Len(hints) - 1) = hints

\* C26: whatever conflicts were detected, the totalCost and the
\* budgetBreakdown of the plan that applyEdgeCaseHandling returns are the
\* values computed from the days of that plan; with the budget and the
\* short-trip adjustment both applied, the activities component is the sum
\* over the truncated activity lists.
C26_TotalsComputedFromFinalDays ==
  ai.pc = "done" =>
    /\ ai.out.totalCost = CalculateTotalCost(ai.out.days)
    /\ ai.out.budgetBreakdown = CalculateBudgetBreakdown(ai.out.days)

\* C27: every plan that createAIItinerary returns has one day per requested
\* day: its days carry the indices 1..N in order, and N is the duration of
\* the request.
C27_DaysMatchRequestedDuration ==
  (ai.pc = "done" /\ ai.out.t = "plan") =>
    /\ Len(ai.out.days) = ai.req.duration
    /\ \A d \in 1..Len(ai.out.days) : ai.out.days[d].day = d

\* C28: for a request of fewer than 3 days the short duration conflict is
\* detected, and every day of the plan that createAIItinerary returns has
\* exactly one activity.
C28_ShortTripOneActivityPerDay ==
  (ai.pc = "done" /\ ai.out.t = "plan" /\ ai.req.duration < 3) =>
    /\ ai.edge.durationConflict = "short"
    /\ \A d \in 1..Len(ai.out.days) : Len(ai.out.days[d].activities) = 1

\* C29: for a request of more than 21 days the long duration conflict is
\* flagged, and applyEdgeCaseHandling leaves the activities of every day
\* untouched while it appends the three immersive recommendations
\* (long-trip optimization, language classes, day trips).  Runs with a
\* budget conflict as well are left out, since there the budget adjustment
\* rewrites the prices.
C29_LongTripAddsImmersiveRecommendations ==
  (ai.pc = "done" /\ ai.out.t = "plan" /\ ai.req.duration > 21 /\ ~ai.edge.budgetConflict) =>
    /\ ai.edge.durationConflict = "long"
    /\ \A d \in 1..Len(ai.out.days) :
         ai.out.days[d].activities = ai.parse.plan.days[d].activities
    /\ \E i \in 1..(Len(ai.out.recommendations) - 2) :
         SubSeq(ai.out.recommendations, i, i + 2) =
           <<"long-trip-optimization", "language-classes", "day-trips">>

\* C30: the climate adaptation is advisory only.  When the climate conflict
\* is detected, the returned plan is the plan of the earlier steps (insights,
\* budget and duration adjustments) with the two climate warnings and the
\* three indoor recommendations appended: the days, every activity and price,
\* totalCost and budgetBreakdown are those of the plan before adaptForClimate.
C30_ClimateAdaptationIsAdvisory ==
  (ai.pc = "done" /\ ai.out.t = "plan" /\ ai.edge.climateConflict) =>
    LET before == ApplyEdgeCaseHandling(
                    EnhanceWithAIInsights(ai.parse.plan, ai.insights),
                    [ai.edge EXCEPT !.climateConflict = FALSE])
    IN  /\ ai.out.days = before.days
        /\ ai.out.totalCost = before.totalCost
        /\ ai.out.budgetBreakdown = before.budgetBreakdown
        /\ ai.out.confidence = before.confidence
        /\ ai.out.warnings = before.warnings \o
             <<"climate-consideration", "indoor-alternatives-suggested">>
        /\ ai.out.recommendations = before.recommendations \o
             <<"museum-visits", "indoor-cultural-experiences",
               "shopping-centers-and-galleries">>

\* A finished run with a climate conflict whose plan has a day with two
\* priced activities.
C30_Witness ==
  /\ ai.pc = "done"
  /\ ai.out.t = "plan"
  /\ ai.edge.climateConflict
  /\ ai.edge.durationConflict = "none"
  /\ \E d \in 1..Len(ai.out.days) :
       /\ Len(ai.out.days[d].activities) >= 2
       /\ ai.out.days[d].activities[1].price > 0
  /\ ai.out.totalCost > 0
  /\ Len(ai.out.warnings) >= 2

\* C31: when the insights pass fails (the call rejects, the reply is not
\* JSON, or the JSON lacks one of the expected list fields),
\* enhanceWithAIInsights swallows the failure and the plan goes on with its
\* recommendations and warnings as they were before the pass: the returned
\* plan is the adjustment of the parsed plan.
C31_FailedInsightsLeavePlanUnchanged ==
  (/\ ai.pc = "done"
   /\ ai.out.t = "plan"
   /\ \/ ai.insights.t \in {"rejected", "not-json"}
      \/ \E i \in 1..Len(InsightFields) : InsightFields[i] \notin ai.insights.has) =>
    ai.out = ApplyEdgeCaseHandling(ai.parse.plan, ai.edge)

\* C32: createAIItinerary runs its steps in the fixed order analyze, prompt,
\* call, parse, enhance, adjust, return, each at most once per invocation:
\* the steps taken are always a beginning of that order.  While the insights
\* call is in flight the main reply has been parsed into a plan, and the
\* returned plan is the adjustment of the enhanced plan under the edge-case
\* report computed from the request at the start of the invocation.
C32_StepsInFixedOrder ==
  /\ Len(ai.steps) <= Len(StepOrder)
  /\ ai.steps = SubSeq(StepOrder, 1, Len(ai.steps))
  /\ ai.pc \in {"main", "parsed", "done", "threw"} => ai.edge = AnalyzeEdgeCases(ai.req)
  /\ ai.pc = "parsed" => ai.parse.plan.t = "plan"
  /\ ai.pc = "done" =>
       /\ ai.steps = StepOrder
       /\ ai.out = ApplyEdgeCaseHandling(
                     EnhanceWithAIInsights(ai.parse.plan, ai.insights), ai.edge)

\* A run served through getOrSet whose first invocation failed at the main
\* call and whose second invocation has returned.
C32_Witness ==
  /\ ai.pc = "done"
  /\ ai.fails = 1
  /\ ai.steps = StepOrder
  /\ ai.insights.t = "json"

C34_ProducerRetriedOnceNeverThrows ==
  [][\A c \in Clients :
       LET r == cl[c]
           q == cl'[c]
       IN  /\ (r.pc = "fetch" /\ r.prod = "plain" /\ q # r) =>
                /\ q.calls = 1
                /\ q.pc \in {"retry", "set_build", "done"}
           /\ (r.pc = "retry" /\ r.prod = "plain" /\ q # r) =>
                /\ r.calls = 1
                /\ q.calls = 2
                /\ q.pc = "done"
                /\ ~q.retOk
                /\ store' = store
                /\ \/ q.ret = NullResult
                   \/ \E v \in PlainVals \cup {FalsyVal} :
                        q.ret = Result(v, FALSE, "api-fallback")
           /\ (q.pc = "done" /\ q.op = "getOrSet" /\ q.ret.source = "api-fallback") =>
                r.pc \in {"done", "retry", "retry_wait"}]_vars

\* getOrSet has returned the value of the producer's second call.
C34_Witness ==
  /\ cl["c1"].pc = "done"
  /\ cl["c1"].op = "getOrSet"
  /\ cl["c1"].calls = 2
  /\ ~cl["c1"].ret.null
  /\ cl["c1"].ret.source = "api-fallback"
  /\ ~cl["c1"].retOk
  /\ store[cl["c1"].key] = NoEntry

\* C35: the lazy eviction of get deletes only the expired entry that get
\* read: when the delete of get runs, the key holds that entry, or nothing,
\* or the delete leaves the key as it is.  So an entry that a concurrent set
\* wrote after get had read the expired one outlives both operations.
C35_EvictionDeletesOnlyEntryRead ==
  [][\A c \in Clients :
       (cl[c].pc = "get_del" /\ cl'[c].pc # "get_del") =>
         \/ store[cl[c].key] = cl[c].snap
         \/ store'[cl[c].key] = store[cl[c].key]]_vars

\* C36: generateKey gives different keys to parameter objects that differ in
\* the value of a parameter, object values included, so that the plan cached
\* for one destination is never served for another.
C36_KeysDifferWhenValuesDiffer ==
  (/\ keygen.pc = "done"
   /\ Len(keygen.first) = Len(keygen.second)
   /\ \A i \in 1..Len(keygen.first) : keygen.first[i].name = keygen.second[i].name
   /\ \E i \in 1..Len(keygen.first) : keygen.first[i].value # keygen.second[i].value)
    => keygen.key1 # keygen.key2

\* C37: for every request the POST /itinerary route builds, climate being
\* destination.climate or 'any', analyzeEdgeCases reports no climate
\* conflict, and the plan returned for it carries no climate warning.
C37_RouteRequestsHaveNoClimateConflict ==
  /\ ~AnalyzeEdgeCases(ai.req).climateConflict
  /\ ~ai.edge.climateConflict
  /\ (ai.pc = "done" /\ ai.out.t = "plan") =>
       \A i \in 1..Len(ai.out.warnings) : ai.out.warnings[i] # "climate-consideration"

\* A run has returned a plan for a request whose climate, taken from the
\* destination, is not 'any'.
C37_Witness ==
  /\ ai.pc = "done"
  /\ ai.out.t = "plan"
  /\ ai.req.climate = "tropical"
  /\ ai.req.destClimate = "tropical"

====
